---- MODULE Spec2Model ----
(***************************************************************************)
(* A model of the SaaS reviews scraper: the orchestrator                    *)
(* (SaaSReviewsScraper.scrape in index.js), the three source adapters       *)
(* (G2Scraper, CapterraScraper, TrustRadiusScraper) and the guard and       *)
(* session code they inherit from BaseScraper.  The page driver (puppeteer) *)
(* and the file system are the environment: every call into them picks one  *)
(* of the outcomes the call can have.                                       *)
(***************************************************************************)
EXTENDS Integers, Sequences, FiniteSets, TLC

(***************************************************************************)
(* Values                                                                   *)
(***************************************************************************)

\* A text is a sequence of characters; JavaScript's null text is NullText.
NullText == <<"null">>

\* A date string is null, or names a calendar day (numbered) in one of three
\* ways, or is unparsable: Day(n) is 'YYYY-MM-DD'; DayTime(n) is an ISO
\* date-time later than midnight on that day, as a datetime attribute holds;
\* DaySlashed(n) is 'DD/MM/YYYY' with DD > 12, which only a format list reads.
NullDate == [kind |-> "null", day |-> 0]

JunkDate == [kind |-> "junk", day |-> 0]

Day(n) == [kind |-> "valid", day |-> n]

DayTime(n) == [kind |-> "datetime", day |-> n]

DaySlashed(n) == [kind |-> "slashed", day |-> n]

\* Truthiness of an option or field holding a date string.
Truthy(d) == d.kind # "null"

\* Helpers.validateDate: moment(dateString, 'YYYY-MM-DD', true).isValid()
validateDate(d) == d.kind = "valid"

\* moment(dateString).isValid(): ISO strings parse, the rest does not.
momentIsValid(d) == d.kind \in {"valid", "datetime"}

\* moment(dateString) as an instant, in half days: midnight of the day for a
\* date, later in the day for a date-time.
momentOf(d) == IF d.kind = "datetime" THEN 2 * d.day + 1 ELSE 2 * d.day

\* Helpers.isDateInRange: all three parse, and
\* date.isBetween(start, end, null, '[]').
isDateInRange(d, startDate, endDate) ==
    /\ momentIsValid(d)
    /\ momentIsValid(startDate)
    /\ momentIsValid(endDate)
    /\ momentOf(startDate) <= momentOf(d)
    /\ momentOf(d) <= momentOf(endDate)

\* A filter that tests every record against the range, given in full or not.
filterReviewsAlways(reviews, startDate, endDate) ==
    LET Keep(r) == Truthy(r.date) /\ isDateInRange(r.date, startDate, endDate)
    IN  SelectSeq(reviews, Keep)

\* BaseScraper.filterReviewsByDateRange
filterReviewsByDateRange(reviews, startDate, endDate) ==
    IF ~Truthy(startDate) \/ ~Truthy(endDate) THEN reviews
    ELSE LET Keep(r) == Truthy(r.date) /\ isDateInRange(r.date, startDate, endDate)
         IN  SelectSeq(reviews, Keep)

\* A slice that cuts nothing.
SliceToNoCut(s, n) == s

\* Array.prototype.slice(0, n)
SliceTo(s, n) == IF Len(s) <= n THEN s ELSE SubSeq(s, 1, n)

\* Math.ceil(a / b) for a >= 0, b > 0
CeilDiv(a, b) == (a + b - 1) \div b

(***************************************************************************)
(* Inputs and environment                                                   *)
(***************************************************************************)

\* The adapters, by the tag constructor.name.replace('Scraper', '') gives.
Adapters == {"G2", "Capterra", "TrustRadius"}

\* The date range the run may be given: 2..3, inclusive.
RangeStart == Day(2)

RangeEnd == Day(3)

\* What a site shows: a review inside the range and an older one.
NewReview == [content |-> <<"a">>, author |-> <<"x">>, date |-> Day(2)]

OldReview == [content |-> <<"b">>, author |-> <<"y">>, date |-> Day(1)]

\* An entry of a page's list of reviews: the review it shows, and whether
\* reading its fields out of the DOM throws.
Entry(r) == [review |-> r, throws |-> FALSE]

ThrowingEntry(r) == [review |-> r, throws |-> TRUE]

\* The lists of reviews a loaded page can show.
Listings ==
    { <<>>, <<Entry(NewReview)>>, <<Entry(OldReview)>>,
      <<Entry(NewReview), Entry(OldReview)>>,
      <<Entry(NewReview), ThrowingEntry(OldReview)>> }

\* What an extraction can meet: the list the page shows once it is scrolled,
\* and whether waitForSelector found a review element before its timeout.
Views == [entries : Listings, waited : {"found", "timeout"}]

\* No extraction has just been made.
NoView == [entries |-> <<>>, waited |-> "none"]

\* The limits a run may be given: one page is more than enough for the small
\* one; the large one lets G2 request three pages and Capterra two.
SmallLimit == 1

LargeLimit == 21

\* How many load-more or next-page steps a TrustRadius site offers at most:
\* enough for scrapeReviews to use up its attempts.
MaxMoreSteps == 10

\* --start-date / --end-date as given on the command line.
DateOptions ==
    { <<NullDate, NullDate>>, <<RangeStart, RangeEnd>>,
      <<RangeEnd, RangeStart>>, <<JunkDate, RangeEnd>>, <<RangeStart, JunkDate>> }

\* The options scrape() may be called with.  A run over all sources is given
\* the small limit.  options.verbose only decides whether processResults
\* writes the statistics file too, and is drawn there.
OptionSets ==
    { o \in [ company : BOOLEAN,
              source : {"g2", "capterra", "trustradius", "all", "yelp"},
              url : BOOLEAN,
              dates : DateOptions,
              limit : {SmallLimit, LargeLimit} ] :
        o.source = "all" => o.limit = SmallLimit }

startDate(o) == o.dates[1]

endDate(o) == o.dates[2]

\* What page.goto can leave in the tab: a page whose title carries a blocking
\* keyword or not, with a CAPTCHA marker in its DOM or not.  The guard has
\* neither read its title (checked) nor scanned its DOM (scanned) yet.
LoadedPages ==
    { [blocked |-> b, captcha |-> c, checked |-> FALSE, scanned |-> FALSE] :
        b \in BOOLEAN, c \in BOOLEAN }

NoPage == [blocked |-> FALSE, captcha |-> FALSE, checked |-> FALSE, scanned |-> FALSE]

NoSession == [browser |-> "null", page |-> "null"]

(***************************************************************************)
(* searchForCompany on Capterra and TrustRadius                             *)
(***************************************************************************)

\* String.prototype.toLowerCase on the modelled alphabet.
Lower(c) ==
    CASE c = "A" -> "a"
      [] c = "B" -> "b"
      [] c = "X" -> "x"
      [] c = "Y" -> "y"
      [] OTHER -> c

\* --company as given on the command line, when given.
CompanyName == <<"A", "b">>

\* No URL: null.
NullUrl == <<"null">>

\* --url as given on the command line.
GivenUrl == <<"given">>

\* G2Scraper.searchForCompany's directUrl: baseUrl/products/slug/reviews.
SlugUrl == <<"g2", "/products/", "slug", "/reviews">>

\* The product links a search page can show, a[href*="/p/"] on Capterra and
\* a[href*="/products/"] on TrustRadius: one whose text is the name in lower
\* case, one whose text holds the name in upper case and whose href ends in
\* a slash, one with another text whose href is a reviews page already, one
\* with the letters of the name in another order.
LowerCaseLink == [text |-> <<"a", "b">>, href |-> <<"p1">>]

UpperCaseLink == [text |-> <<"x", " ", "A", "B">>, href |-> <<"p2", "/">>]

OtherLink == [text |-> <<"y">>, href |-> <<"p3", "/reviews">>]

ScrambledLink == [text |-> <<"b", "a">>, href |-> <<"p4">>]

\* The lists of product links a search page can show: none, one that names
\* the company or not, two of which none, the second or both name it.
ProductLinks ==
    { <<>>, <<LowerCaseLink>>, <<OtherLink>>, <<OtherLink, ScrambledLink>>,
      <<ScrambledLink, UpperCaseLink>>, <<LowerCaseLink, UpperCaseLink>>,
      <<UpperCaseLink, LowerCaseLink>> }

\* The lists of a[href*="/vendor/"] links a TrustRadius search page can
\* show: none, one that names the company, one that does not.
VendorLinks ==
    { <<>>, <<[text |-> <<"A", "b", "x">>, href |-> <<"v1">>]>>,
      <<[text |-> <<"x">>, href |-> <<"v2">>]>> }

\* The search pages.
SearchPages == [links : ProductLinks, altLinks : VendorLinks]

NoResults == [links |-> <<>>, altLinks |-> <<>>]

\* String.prototype.toLowerCase
toLowerCase(text) == [i \in 1..Len(text) |-> Lower(text[i])]

\* String.prototype.includes
includes(text, needle) ==
    \E k \in 0..(Len(text) - Len(needle)) :
        \A i \in 1..Len(needle) : text[k + i] = needle[i]

\* A test of the link's text that tells upper case from lower case.
linkMatchesExactCase(link, companyName) == includes(link.text, companyName)

\* link.textContent.toLowerCase().includes(companyName.toLowerCase())
linkMatches(link, companyName) ==
    includes(toLowerCase(link.text), toLowerCase(companyName))

\* for (const link of links) if (...) return link.href: the href of the
\* first link that matches, null when none does.
firstMatch(links, companyName) ==
    LET Hit(i) == linkMatches(links[i], companyName)
        hits == SelectSeq([i \in 1..Len(links) |-> i], Hit)
    IN  IF hits = <<>> THEN NullUrl ELSE links[hits[1]].href

\* return links.length > 0 ? links[0].href : null
firstLink(links) == IF Len(links) > 0 THEN links[1].href ELSE NullUrl

\* productLink.replace(/\/+$/, '')
RECURSIVE stripTrailingSlashes(_)
stripTrailingSlashes(href) ==
    IF href # <<>> /\ href[Len(href)] = "/"
    THEN stripTrailingSlashes(SubSeq(href, 1, Len(href) - 1))
    ELSE href

\* CapterraScraper.searchForCompany once the search page is loaded.
CapterraProductUrl(shownResults, companyName) ==
    LET matched == firstMatch(shownResults.links, companyName)
        productLink == IF matched # NullUrl THEN matched ELSE firstLink(shownResults.links)
    IN  IF productLink = NullUrl THEN NullUrl
        ELSE stripTrailingSlashes(productLink) \o <<"/reviews">>

\* TrustRadiusScraper.searchForCompany once the search page is loaded.
TrustRadiusProductUrl(shownResults, companyName) ==
    LET matched == firstMatch(shownResults.links, companyName)
        altMatched == firstMatch(shownResults.altLinks, companyName)
        productLink == IF matched # NullUrl THEN matched
                       ELSE IF altMatched # NullUrl THEN altMatched
                       ELSE firstLink(shownResults.links)
    IN  IF productLink = NullUrl THEN NullUrl
        ELSE IF includes(productLink, <<"/reviews">>) THEN productLink
        ELSE productLink \o <<"/reviews">>

\* searchForCompany of the adapter: null when the search page does not load.
searchForCompany(adapter, navOk, shownResults, companyName) ==
    IF ~navOk THEN NullUrl
    ELSE IF adapter = "Capterra" THEN CapterraProductUrl(shownResults, companyName)
    ELSE TrustRadiusProductUrl(shownResults, companyName)

(***************************************************************************)
(* State                                                                    *)
(***************************************************************************)

VARIABLES
    opc,          \* where scrape() stands
    options,      \* the options of the current scrape() call
    scrapers,     \* createScrapers' result: the adapters, in order
    cur,          \* index of the scraper the for loop is at
    allReviews,   \* scrape()'s merged records
    stats,        \* this.stats
    result,       \* what scrape() returned
    outFile,      \* the reviews file written, <<>> when none
    filesSaved,   \* the files written by saveToFile
    session,      \* per adapter: this.browser and this.page
    hpc,          \* where scrapeReviews stands
    acc,          \* scrapeReviews' allReviews
    currentPage,  \* scrapeReviews' currentPage
    attempts,     \* TrustRadius' attempts
    ret,          \* what scrapeReviews returned
    resume,       \* where the harvest goes on after the CAPTCHA wait
    page,         \* the page loaded in the current tab
    moreSteps,    \* load-more and next-page steps taken on the current site
    pageReviews,  \* the batch the last extraction returned
    thisReviews,  \* per adapter: this.reviews
    errorLog,     \* the adapters logger.error reported as blocked
    undelayedLoad, \* the scraper's last page.goto was followed by no delay
    shown,        \* what the last extraction met on the page
    results,      \* the links of the search page searchForCompany looked at
    productUrl,   \* scrape()'s productUrl, until scrapeReviews has taken it
    lastOp        \* the last call made

vars ==
    << opc, options, scrapers, cur, allReviews, stats, result, outFile, filesSaved,
       session, hpc, acc, currentPage, attempts, ret, resume, page, moreSteps,
       pageReviews, thisReviews, errorLog, undelayedLoad, shown, results,
       productUrl, lastOp >>

orchVars == << options, scrapers, cur, allReviews, stats, result, outFile, filesSaved >>

\* The locals of scrapeReviews and this.reviews, but for what the last
\* extraction met.
harvestKept == << acc, currentPage, attempts, ret, resume, moreSteps, pageReviews, thisReviews >>

harvestVars == << harvestKept, shown >>

searchVars == << results, productUrl >>

\* The adapter the for loop is at.
Current == scrapers[cur]

\* constructor of SaaSReviewsScraper
Init ==
    /\ opc = "idle"
    /\ options = [company |-> FALSE, source |-> "g2", url |-> FALSE,
                  dates |-> <<NullDate, NullDate>>, limit |-> SmallLimit]
    /\ scrapers = <<>>
    /\ cur = 1
    /\ allReviews = <<>>
    /\ stats = [totalReviews |-> 0, sources |-> <<>>, errors |-> <<>>, successRate |-> 0]
    /\ result = "none"
    /\ outFile = <<>>
    /\ filesSaved = {}
    /\ session = [a \in Adapters |-> NoSession]
    /\ hpc = "idle"
    /\ acc = <<>>
    /\ currentPage = 1
    /\ attempts = 0
    /\ ret = <<>>
    /\ resume = "idle"
    /\ page = NoPage
    /\ moreSteps = 0
    /\ pageReviews = <<>>
    /\ thisReviews = [a \in Adapters |-> <<>>]
    /\ errorLog = {}
    /\ undelayedLoad = FALSE
    /\ shown = NoView
    /\ results = NoResults
    /\ productUrl = NullUrl
    /\ lastOp = "none"

(***************************************************************************)
(* Orchestrator: SaaSReviewsScraper                                         *)
(***************************************************************************)

\* A validation that looks at the company name only.
validateOptionsCompanyOnly(o) == o.company

validateOptions(o) ==
    /\ o.company
    /\ (Truthy(startDate(o)) => validateDate(startDate(o)))
    /\ (Truthy(endDate(o)) => validateDate(endDate(o)))
    /\ (Truthy(startDate(o)) /\ Truthy(endDate(o))
            => ~(startDate(o).day > endDate(o).day))
    /\ o.source \in {"g2", "capterra", "trustradius", "all"}

createScrapers(source) ==
    CASE source = "g2" -> <<"G2">>
      [] source = "capterra" -> <<"Capterra">>
      [] source = "trustradius" -> <<"TrustRadius">>
      [] source = "all" -> <<"G2", "Capterra", "TrustRadius">>
      [] OTHER -> <<>>

\* scrape(options) up to the for loop, for options out of the given set.
StartScrapeWith(optionSets) ==
    /\ opc = "idle"
    /\ \E o \in optionSets :
        /\ options' = o
        /\ IF ~validateOptions(o)
           THEN /\ result' = "false"
                /\ opc' = "done"
                /\ UNCHANGED << scrapers, allReviews >>
           ELSE /\ scrapers' = createScrapers(o.source)
                /\ allReviews' = <<>>
                /\ opc' = "init"
                /\ UNCHANGED result
    /\ cur' = 1
    /\ lastOp' = "start"
    /\ UNCHANGED << stats, outFile, filesSaved, session, hpc, harvestVars, page, errorLog, undelayedLoad >>
    /\ UNCHANGED searchVars

StartScrape == StartScrapeWith(OptionSets)

\* The for loop's step to the next scraper, or past the loop.
AfterSource == IF cur + 1 > Len(scrapers) THEN "results" ELSE "init"

\* A scrape() that leaves the for loop at the first scraper that fails to
\* initialise.
AfterInitFailureBreak == "results"

\* scrape(): if (!success) continue.
AfterInitFailure == AfterSource

\* BaseScraper.initialize: the launch, the new page or the page's set-up may
\* throw; what was assigned before stays assigned.
initialize(s, outcome) ==
    CASE outcome = "launchFail" -> s
      [] outcome = "pageFail" -> [s EXCEPT !.browser = "open"]
      [] outcome = "setupFail" -> [browser |-> "open", page |-> "open"]
      [] OTHER -> [browser |-> "open", page |-> "open"]

\* scrape(): scraper.initialize() and the continue on failure.
Initialize ==
    /\ opc = "init"
    /\ \E outcome \in {"ok", "launchFail", "pageFail", "setupFail"} :
        /\ session' = [session EXCEPT ![Current] = initialize(@, outcome)]
        /\ IF outcome = "ok"
           THEN /\ opc' = "search"
                /\ cur' = cur
           ELSE /\ opc' = AfterInitFailure
                /\ cur' = cur + 1
    /\ page' = NoPage
    /\ undelayedLoad' = FALSE
    /\ lastOp' = "initialize"
    /\ UNCHANGED << options, scrapers, allReviews, stats, result, outFile, filesSaved,
                    hpc, harvestVars, errorLog >>
    /\ UNCHANGED searchVars

\* An entry of scrapeReviews whose page counter starts past the first page.
EnterHarvestAtSecondPage ==
    /\ opc' = "harvest"
    /\ hpc' = "start"
    /\ acc' = <<>>
    /\ currentPage' = 1 + 1
    /\ attempts' = 0
    /\ ret' = <<>>
    /\ resume' = "idle"
    /\ moreSteps' = 0
    /\ pageReviews' = <<>>
    /\ shown' = NoView
    /\ UNCHANGED thisReviews

\* Entry of scrapeReviews: its locals.
EnterHarvest ==
    /\ opc' = "harvest"
    /\ hpc' = "start"
    /\ acc' = <<>>
    /\ currentPage' = 1
    /\ attempts' = 0
    /\ ret' = <<>>
    /\ resume' = "idle"
    /\ moreSteps' = 0
    /\ pageReviews' = <<>>
    /\ shown' = NoView
    /\ UNCHANGED thisReviews

\* A scrape() that resolves the name whether a URL was given or not.
needsSearchAlways(o) == TRUE

\* scrape(): let productUrl = options.url; if (!productUrl) ...
needsSearch(o) == ~o.url

\* scrape(): productUrl = options.url, searchForCompany not called.
UseDirectUrl ==
    /\ opc = "search"
    /\ ~needsSearch(options)
    /\ EnterHarvest
    /\ lastOp' = "url"
    /\ results' = NoResults
    /\ productUrl' = GivenUrl
    /\ UNCHANGED << orchVars, session, page, errorLog, undelayedLoad >>

\* G2Scraper.searchForCompany: opens the slug URL, whatever navigateToPage
\* returns, and answers that URL.
G2Search ==
    /\ opc = "search"
    /\ needsSearch(options)
    /\ Current = "G2"
    /\ \/ /\ lastOp' = "searchfail"
          /\ undelayedLoad' = TRUE
          /\ UNCHANGED page
       \/ /\ lastOp' = "search"
          /\ undelayedLoad' = FALSE
          /\ page' \in LoadedPages
    /\ EnterHarvest
    /\ UNCHANGED << orchVars, session, errorLog >>
    /\ results' = NoResults
    /\ productUrl' = SlugUrl

\* A scrape() that goes on to the harvest whatever searchForCompany answered.
hasProductUrlAlways(found) == TRUE

\* scrape(): if (!productUrl) { ... cleanup(); continue; }
hasProductUrl(found) == found

\* scrape() after searchForCompany: the harvest with the URL found, or
\* straight to cleanup when the answer is null.
AfterSearch(found) ==
    IF hasProductUrl(found)
    THEN EnterHarvest
    ELSE /\ opc' = "cleanup"
         /\ UNCHANGED << hpc, harvestVars >>

\* CapterraScraper.searchForCompany and TrustRadiusScraper.searchForCompany:
\* null when the search page does not load or holds no product link.
LinkSearch ==
    /\ opc = "search"
    /\ needsSearch(options)
    /\ Current \in {"Capterra", "TrustRadius"}
    /\ \E navOk \in BOOLEAN, shownResults \in SearchPages :
        LET url == searchForCompany(Current, navOk, shownResults, CompanyName)
        IN  /\ productUrl' = url
            /\ IF ~navOk
               THEN /\ lastOp' = "searchfail"
                    /\ undelayedLoad' = TRUE
                    /\ results' = NoResults
                    /\ UNCHANGED page
               ELSE /\ lastOp' = IF url = NullUrl THEN "nolink" ELSE "search"
                    /\ undelayedLoad' = FALSE
                    /\ results' = shownResults
                    /\ page' \in LoadedPages
            /\ AfterSearch(url # NullUrl)
    /\ UNCHANGED << orchVars, session, errorLog >>

\* A scrape() that lists the source whatever scrapeReviews returned.
CollectListsEverySource ==
    /\ opc = "collect"
    /\ allReviews' = allReviews \o ret
    /\ stats' = [stats EXCEPT !.sources = Append(@, Current)]
    /\ opc' = "cleanup"
    /\ lastOp' = "collect"
    /\ UNCHANGED << options, scrapers, cur, result, outFile, filesSaved, session, hpc,
                    harvestVars, page, errorLog, undelayedLoad >>
    /\ UNCHANGED searchVars

\* scrape(): reviews.length > 0 => allReviews.push, stats.sources.push.
Collect ==
    /\ opc = "collect"
    /\ IF Len(ret) > 0
       THEN /\ allReviews' = allReviews \o ret
            /\ stats' = [stats EXCEPT !.sources = Append(@, Current)]
       ELSE UNCHANGED << allReviews, stats >>
    /\ opc' = "cleanup"
    /\ lastOp' = "collect"
    /\ UNCHANGED << options, scrapers, cur, result, outFile, filesSaved, session, hpc,
                    harvestVars, page, errorLog, undelayedLoad >>
    /\ UNCHANGED searchVars

\* BaseScraper.cleanup: a close that throws leaves the rest undone.
cleanup(s, outcome) ==
    IF s.page # "null" /\ outcome = "pageCloseFail" THEN s
    ELSE IF s.browser # "null" /\ outcome = "browserCloseFail"
         THEN [s EXCEPT !.page = "null"]
    ELSE NoSession

\* A scrape() in which a close that throws ends the run.
AfterCleanupEscalates(outcome) == IF outcome = "ok" THEN AfterSource ELSE "done"

\* scrape() after cleanup(): cleanup catches what a close throws, so the for
\* loop goes on whatever the outcome.
AfterCleanup(outcome) == AfterSource

\* scrape(): await scraper.cleanup(), after the harvest or when no product
\* page was found; then the next scraper.  The scraper's tab is not read again.
Cleanup ==
    /\ opc = "cleanup"
    /\ \E outcome \in {"ok", "pageCloseFail", "browserCloseFail"} :
        /\ session' = [session EXCEPT ![Current] = cleanup(@, outcome)]
        /\ opc' = AfterCleanup(outcome)
    /\ cur' = cur + 1
    /\ page' = NoPage
    /\ undelayedLoad' = FALSE
    /\ lastOp' = "cleanup"
    /\ UNCHANGED << options, scrapers, allReviews, stats, result, outFile, filesSaved,
                    hpc, harvestVars, errorLog >>
    /\ results' = NoResults
    /\ productUrl' = NullUrl

(***************************************************************************)
(* Guard and harvest steps shared by the adapters: BaseScraper               *)
(***************************************************************************)

\* BaseScraper.checkForBlocking: the title of the loaded page matches a
\* blocking keyword.  page.title() is taken to answer.
checkForBlocking(p) == p.blocked

\* BaseScraper.handleCaptcha: one of the CAPTCHA selectors matches an element
\* of the loaded page.  page.$() is taken to answer.
captchaFound(p) == p.captcha

\* BaseScraper.navigateToPage from scrapeReviews: false when goto throws,
\* else a page is loaded.  onFail and onOk are where the caller goes on.
navigateToPage(onFail, onOk) ==
    \/ /\ lastOp' = "navfail"
       /\ undelayedLoad' = TRUE
       /\ UNCHANGED << errorLog, page >>
       /\ hpc' = onFail
    \/ /\ lastOp' = "nav"
       /\ undelayedLoad' = FALSE
       /\ page' \in LoadedPages
       /\ UNCHANGED errorLog
       /\ hpc' = onOk

\* The title check after a load, and where the caller goes on.
BlockingCheck(onBlocked, onClear) ==
    /\ IF checkForBlocking(page)
       THEN /\ hpc' = onBlocked
            /\ errorLog' = errorLog \cup {Current}
       ELSE /\ hpc' = onClear
            /\ UNCHANGED errorLog
    /\ page' = [page EXCEPT !.checked = TRUE]
    /\ lastOp' = "check"
    /\ UNCHANGED undelayedLoad

\* handleCaptcha after a load: a marker found suspends the harvest on
\* process.stdin.once('data'), with no timeout.
CaptchaScan(onDone) ==
    /\ IF captchaFound(page)
       THEN /\ hpc' = "captcha_wait"
            /\ resume' = onDone
       ELSE /\ hpc' = onDone
            /\ UNCHANGED resume
    /\ page' = [page EXCEPT !.scanned = TRUE]
    /\ lastOp' = "captcha"
    /\ UNCHANGED << errorLog, undelayedLoad >>

\* The human's Enter on stdin: handleCaptcha returns and the harvest goes on.
CaptchaSignal ==
    /\ opc = "harvest"
    /\ hpc = "captcha_wait"
    /\ hpc' = resume
    /\ resume' = "idle"
    /\ page' = [page EXCEPT !.captcha = FALSE]
    /\ lastOp' = "signal"
    /\ UNCHANGED << opc, orchVars, session, acc, currentPage, attempts, ret, moreSteps,
                    pageReviews, thisReviews, errorLog, undelayedLoad, shown >>
    /\ UNCHANGED searchVars

\* The records an extraction returns: each batch entry with its id
\* (`${source}_${index}_${Date.now()}`) and its source tag.
Stamp(batch, src, t) ==
    [i \in 1..Len(batch) |->
        [id |-> <<src, i, t>>, source |-> src, content |-> batch[i].content,
         author |-> batch[i].author, date |-> batch[i].date]]

\* The reviews a list of entries shows.
Reviews(entries) == [i \in 1..Len(entries) |-> entries[i].review]

\* page.evaluate's forEach with a try around each element: an entry whose
\* fields throw is left out, the others keep the index they have in the DOM.
extractEach(entries, src, t) ==
    LET stamped == Stamp(Reviews(entries), src, t)
        Reads(i) == ~entries[i].throws
        kept == SelectSeq([i \in 1..Len(entries) |-> i], Reads)
    IN  [k \in 1..Len(kept) |-> stamped[kept[k]]]

\* G2Scraper.extractG2Reviews: the forEach has no try of its own; what one
\* element throws rejects page.evaluate, and the catch around it answers [].
extractG2Reviews(entries, t) ==
    IF \E i \in 1..Len(entries) : entries[i].throws THEN <<>>
    ELSE Stamp(Reviews(entries), "G2", t)

\* CapterraScraper.extractCapterraReviews
extractCapterraReviews(entries, t) == extractEach(entries, "Capterra", t)

\* TrustRadiusScraper.extractTrustRadiusReviews
extractTrustRadiusReviews(entries, t) == extractEach(entries, "TrustRadius", t)

\* A wait for the review elements whose timeout is not caught.
waitForReviewsThrows(waited) == waited = "found"

\* page.waitForSelector(...).catch(() => logger.debug(...)): scrapeReviews
\* goes on whether the selector was found or the wait timed out.
waitForReviews(waited) == TRUE

\* What scrapeReviews' own catch does with an exception: return [].
ThrowOut ==
    /\ ret' = <<>>
    /\ pageReviews' = <<>>
    /\ hpc' = "idle"
    /\ opc' = "collect"

\* The locals of scrapeReviews end with the call.
DropLocals ==
    /\ acc' = <<>>
    /\ currentPage' = 1
    /\ attempts' = 0
    /\ moreSteps' = 0

\* A return from scrapeReviews that hands over nothing of what was gathered.
ReturnNothing(records) ==
    /\ ret' = <<>>
    /\ pageReviews' = <<>>
    /\ shown' = NoView
    /\ hpc' = "idle"
    /\ opc' = "collect"

\* return from scrapeReviews with the given records.
Return(records) ==
    /\ ret' = records
    /\ pageReviews' = <<>>
    /\ shown' = NoView
    /\ hpc' = "idle"
    /\ opc' = "collect"

(***************************************************************************)
(* G2Scraper.scrapeReviews                                                  *)
(***************************************************************************)

G2PerPage == 10

\* First page load; return [] when it fails.
G2FirstLoad ==
    /\ opc = "harvest" /\ Current = "G2" /\ hpc = "start"
    /\ \/ /\ lastOp' = "navfail"
          /\ undelayedLoad' = TRUE
          /\ UNCHANGED << errorLog, page >>
          /\ Return(<<>>)
       \/ /\ lastOp' = "nav"
          /\ undelayedLoad' = FALSE
          /\ page' \in LoadedPages
          /\ hpc' = "first_check"
          /\ UNCHANGED << opc, ret, pageReviews, errorLog, shown >>
    /\ UNCHANGED << orchVars, session, acc, currentPage, attempts, resume, moreSteps, thisReviews >>
    /\ results' = NoResults
    /\ productUrl' = NullUrl

\* Check for blocking before starting; return [] when blocked.
G2FirstCheck ==
    /\ opc = "harvest" /\ Current = "G2" /\ hpc = "first_check"
    /\ IF checkForBlocking(page)
       THEN /\ Return(<<>>)
            /\ errorLog' = errorLog \cup {Current}
       ELSE /\ hpc' = "first_captcha"
            /\ UNCHANGED << opc, ret, pageReviews, errorLog, shown >>
    /\ page' = [page EXCEPT !.checked = TRUE]
    /\ lastOp' = "check"
    /\ UNCHANGED undelayedLoad
    /\ UNCHANGED << orchVars, session, acc, currentPage, attempts, resume, moreSteps, thisReviews >>
    /\ UNCHANGED searchVars

\* Handle CAPTCHA if present, before the loop.
G2FirstCaptcha ==
    /\ opc = "harvest" /\ Current = "G2" /\ hpc = "first_captcha"
    /\ CaptchaScan("loop")
    /\ UNCHANGED << opc, orchVars, session, acc, currentPage, attempts, ret, moreSteps,
                    pageReviews, thisReviews, shown >>
    /\ UNCHANGED searchVars

G2LoopCondition ==
    /\ Len(acc) < options.limit
    /\ currentPage <= CeilDiv(options.limit, G2PerPage)

\* Loop head and the page's navigation; break when it fails.
G2PageLoad ==
    /\ opc = "harvest" /\ Current = "G2" /\ hpc = "loop"
    /\ G2LoopCondition
    /\ navigateToPage("finish", "page_check")
    /\ shown' = NoView
    /\ UNCHANGED << opc, orchVars, session, harvestKept >>
    /\ UNCHANGED searchVars

\* Blocked while navigating pagination: break.
G2PageCheck ==
    /\ opc = "harvest" /\ Current = "G2" /\ hpc = "page_check"
    /\ BlockingCheck("finish", "page_captcha")
    /\ UNCHANGED << opc, orchVars, session, harvestVars >>
    /\ UNCHANGED searchVars

G2PageCaptcha ==
    /\ opc = "harvest" /\ Current = "G2" /\ hpc = "page_captcha"
    /\ CaptchaScan("extract")
    /\ UNCHANGED << opc, orchVars, session, acc, currentPage, attempts, ret, moreSteps,
                    pageReviews, thisReviews, shown >>
    /\ UNCHANGED searchVars

\* Wait for the review elements, scroll, extract, filter by date, push; stop
\* on an empty page or an empty filtered batch, else go to the next page.
G2Extract ==
    /\ opc = "harvest" /\ Current = "G2" /\ hpc = "extract"
    /\ \E view \in Views :
        LET extracted == extractG2Reviews(view.entries, currentPage)
            filteredReviews ==
                filterReviewsByDateRange(extracted, startDate(options), endDate(options))
        IN  /\ shown' = view
            /\ IF ~waitForReviews(view.waited)
               THEN /\ ThrowOut
                    /\ UNCHANGED << acc, currentPage >>
               ELSE /\ pageReviews' = extracted
                    /\ UNCHANGED << opc, ret >>
                    /\ IF Len(extracted) = 0
                       THEN /\ hpc' = "finish"
                            /\ UNCHANGED << acc, currentPage >>
                       ELSE /\ acc' = acc \o filteredReviews
                            /\ IF Len(filteredReviews) = 0
                               THEN /\ hpc' = "finish"
                                    /\ UNCHANGED currentPage
                               ELSE /\ hpc' = "loop"
                                    /\ currentPage' = currentPage + 1
    /\ lastOp' = "extract"
    /\ UNCHANGED << orchVars, session, attempts, resume, page, moreSteps,
                    thisReviews, errorLog, undelayedLoad >>
    /\ UNCHANGED searchVars

\* Past the loop: cut to limit and return.
G2Finish ==
    /\ opc = "harvest" /\ Current = "G2"
    /\ hpc = "finish" \/ (hpc = "loop" /\ ~G2LoopCondition)
    /\ thisReviews' = [thisReviews EXCEPT ![Current] = SliceTo(acc, options.limit)]
    /\ Return(thisReviews'[Current])
    /\ lastOp' = "return"
    /\ DropLocals
    /\ UNCHANGED << orchVars, session, resume, page, errorLog, undelayedLoad >>
    /\ UNCHANGED searchVars

(***************************************************************************)
(* CapterraScraper.scrapeReviews                                            *)
(***************************************************************************)

CapterraPerPage == 20

\* CapterraScraper.removeDuplicateReviews: drop what repeats a content the
\* accumulator holds.
CapterraRemoveDuplicateReviews(existingReviews, newReviews) ==
    LET existingContents == { existingReviews[i].content : i \in 1..Len(existingReviews) }
        Fresh(r) == r.content \notin existingContents
    IN  SelectSeq(newReviews, Fresh)

CapterraLoopCondition ==
    /\ Len(acc) < options.limit
    /\ currentPage <= CeilDiv(options.limit, CapterraPerPage)

\* Loop head and the page's navigation; break when it fails.
CapterraPageLoad ==
    /\ opc = "harvest" /\ Current = "Capterra" /\ hpc \in {"start", "loop"}
    /\ CapterraLoopCondition
    /\ navigateToPage("finish", "page_check")
    /\ shown' = NoView
    /\ UNCHANGED << opc, orchVars, session, harvestKept >>
    /\ results' = NoResults
    /\ productUrl' = NullUrl

\* Blocked by Capterra: break.
CapterraPageCheck ==
    /\ opc = "harvest" /\ Current = "Capterra" /\ hpc = "page_check"
    /\ BlockingCheck("finish", "page_captcha")
    /\ UNCHANGED << opc, orchVars, session, harvestVars >>
    /\ UNCHANGED searchVars

CapterraPageCaptcha ==
    /\ opc = "harvest" /\ Current = "Capterra" /\ hpc = "page_captcha"
    /\ CaptchaScan("extract")
    /\ UNCHANGED << opc, orchVars, session, acc, currentPage, attempts, ret, moreSteps,
                    pageReviews, thisReviews, shown >>
    /\ UNCHANGED searchVars

\* Scroll, wait for the review cards, extract, filter by date, drop repeated
\* contents, push; stop on an empty page or an empty filtered batch.
CapterraExtract ==
    /\ opc = "harvest" /\ Current = "Capterra" /\ hpc = "extract"
    /\ \E view \in Views :
        LET extracted == extractCapterraReviews(view.entries, currentPage)
            filtered ==
                filterReviewsByDateRange(extracted, startDate(options), endDate(options))
            unique == CapterraRemoveDuplicateReviews(acc, filtered)
        IN  /\ shown' = view
            /\ IF ~waitForReviews(view.waited)
               THEN /\ ThrowOut
                    /\ UNCHANGED << acc, currentPage >>
               ELSE /\ pageReviews' = extracted
                    /\ UNCHANGED << opc, ret >>
                    /\ IF Len(extracted) = 0
                       THEN /\ hpc' = "finish"
                            /\ UNCHANGED << acc, currentPage >>
                       ELSE /\ acc' = acc \o unique
                            /\ IF Len(filtered) = 0
                               THEN /\ hpc' = "finish"
                                    /\ UNCHANGED currentPage
                               ELSE /\ hpc' = "loop"
                                    /\ currentPage' = currentPage + 1
    /\ lastOp' = "extract"
    /\ UNCHANGED << orchVars, session, attempts, resume, page, moreSteps,
                    thisReviews, errorLog, undelayedLoad >>
    /\ UNCHANGED searchVars

\* Past the loop: cut to limit and return.
CapterraFinish ==
    /\ opc = "harvest" /\ Current = "Capterra"
    /\ hpc = "finish" \/ (hpc \in {"start", "loop"} /\ ~CapterraLoopCondition)
    /\ thisReviews' = [thisReviews EXCEPT ![Current] = SliceTo(acc, options.limit)]
    /\ Return(thisReviews'[Current])
    /\ lastOp' = "return"
    /\ DropLocals
    /\ UNCHANGED << orchVars, session, resume, page, errorLog, undelayedLoad >>
    /\ UNCHANGED searchVars

(***************************************************************************)
(* TrustRadiusScraper.scrapeReviews                                         *)
(***************************************************************************)

maxAttempts == 10

\* TrustRadiusScraper.removeDuplicateReviews: drop what repeats an id or a
\* content the accumulator holds.
TrustRadiusRemoveDuplicateReviews(existingReviews, newReviews) ==
    LET existingIds == { existingReviews[i].id : i \in 1..Len(existingReviews) }
        existingContent == { existingReviews[i].content : i \in 1..Len(existingReviews) }
        Fresh(r) == r.id \notin existingIds /\ r.content \notin existingContent
    IN  SelectSeq(newReviews, Fresh)

\* The load of the product page; return [] when it fails.
TrustRadiusFirstLoad ==
    /\ opc = "harvest" /\ Current = "TrustRadius" /\ hpc = "start"
    /\ \/ /\ lastOp' = "navfail"
          /\ undelayedLoad' = TRUE
          /\ UNCHANGED << errorLog, page >>
          /\ Return(<<>>)
       \/ /\ lastOp' = "nav"
          /\ undelayedLoad' = FALSE
          /\ page' \in LoadedPages
          /\ hpc' = "first_check"
          /\ UNCHANGED << opc, ret, pageReviews, errorLog, shown >>
    /\ UNCHANGED << orchVars, session, acc, currentPage, attempts, resume, moreSteps, thisReviews >>
    /\ results' = NoResults
    /\ productUrl' = NullUrl

\* Check if we're blocked; return [] when blocked.
TrustRadiusFirstCheck ==
    /\ opc = "harvest" /\ Current = "TrustRadius" /\ hpc = "first_check"
    /\ IF checkForBlocking(page)
       THEN /\ Return(<<>>)
            /\ errorLog' = errorLog \cup {Current}
       ELSE /\ hpc' = "first_captcha"
            /\ UNCHANGED << opc, ret, pageReviews, errorLog, shown >>
    /\ page' = [page EXCEPT !.checked = TRUE]
    /\ lastOp' = "check"
    /\ UNCHANGED undelayedLoad
    /\ UNCHANGED << orchVars, session, acc, currentPage, attempts, resume, moreSteps, thisReviews >>
    /\ UNCHANGED searchVars

TrustRadiusFirstCaptcha ==
    /\ opc = "harvest" /\ Current = "TrustRadius" /\ hpc = "first_captcha"
    /\ CaptchaScan("loop")
    /\ UNCHANGED << opc, orchVars, session, acc, currentPage, attempts, ret, moreSteps,
                    pageReviews, thisReviews, shown >>
    /\ UNCHANGED searchVars

\* A loop that goes on, whatever the attempts, until the limit is reached.
TrustRadiusLoopUnbounded == Len(acc) < options.limit

TrustRadiusLoopCondition ==
    /\ Len(acc) < options.limit
    /\ attempts < maxAttempts

\* Loop head: attempts++, wait for the review elements, extract from the
\* current page; break when nothing is found, else filter by date, drop
\* repeated ids and contents, push.
TrustRadiusExtract ==
    /\ opc = "harvest" /\ Current = "TrustRadius" /\ hpc = "loop"
    /\ TrustRadiusLoopCondition
    /\ attempts' = attempts + 1
    /\ \E view \in Views :
        LET currentReviews == extractTrustRadiusReviews(view.entries, attempts')
            newReviews ==
                filterReviewsByDateRange(currentReviews, startDate(options), endDate(options))
            uniqueReviews == TrustRadiusRemoveDuplicateReviews(acc, newReviews)
        IN  /\ shown' = view
            /\ IF ~waitForReviews(view.waited)
               THEN /\ ThrowOut
                    /\ UNCHANGED acc
               ELSE /\ pageReviews' = currentReviews
                    /\ UNCHANGED << opc, ret >>
                    /\ IF Len(currentReviews) = 0
                       THEN /\ hpc' = "finish"
                            /\ UNCHANGED acc
                       ELSE /\ acc' = acc \o uniqueReviews
                            /\ hpc' = "more"
    /\ lastOp' = "extract"
    /\ UNCHANGED << orchVars, session, currentPage, resume, page, moreSteps,
                    thisReviews, errorLog, undelayedLoad >>
    /\ UNCHANGED searchVars

\* loadMoreReviews, then goToNextPage when it answers false: a click on the
\* load-more button or on an enabled next-page link brings new content and
\* the loop goes on after the delay; with neither, break.
TrustRadiusLoadMore ==
    /\ opc = "harvest" /\ Current = "TrustRadius" /\ hpc = "more"
    /\ \/ /\ moreSteps < MaxMoreSteps
          /\ moreSteps' = moreSteps + 1
          /\ page' \in LoadedPages
          /\ lastOp' \in {"loadmore", "nextpage"}
          /\ hpc' = "loop"
       \/ /\ hpc' = "finish"
          /\ lastOp' = "nomore"
          /\ UNCHANGED << page, moreSteps >>
    /\ shown' = NoView
    /\ UNCHANGED << opc, orchVars, session, acc, currentPage, attempts, ret, resume,
                    pageReviews, thisReviews, errorLog, undelayedLoad >>
    /\ UNCHANGED searchVars

\* Past the loop: cut to limit and return.
TrustRadiusFinish ==
    /\ opc = "harvest" /\ Current = "TrustRadius"
    /\ hpc = "finish" \/ (hpc = "loop" /\ ~TrustRadiusLoopCondition)
    /\ thisReviews' = [thisReviews EXCEPT ![Current] = SliceTo(acc, options.limit)]
    /\ Return(thisReviews'[Current])
    /\ lastOp' = "return"
    /\ DropLocals
    /\ UNCHANGED << orchVars, session, resume, page, errorLog, undelayedLoad >>
    /\ UNCHANGED searchVars

(***************************************************************************)
(* SaaSReviewsScraper.processResults and its helpers                        *)
(***************************************************************************)

IsSpace(c) == c \in {" ", "\n", "\t", "\r"}

\* review.content || '' and the like.
TextOrEmpty(t) == IF t = NullText THEN <<>> ELSE t

\* A date field as the string it is.
DateString(d) ==
    CASE d.kind = "null" -> <<>>
      [] d.kind = "valid" -> <<"#", ToString(d.day)>>
      [] d.kind = "datetime" -> <<"#", ToString(d.day), "t">>
      [] d.kind = "slashed" -> <<"/", ToString(d.day)>>
      [] OTHER -> <<"?">>

HashPrefixLen == 100

\* A hash that tells records apart by their id.
createReviewHashById(review) == <<review.id>>

\* SaaSReviewsScraper.createReviewHash
createReviewHash(review) ==
    LET content == SliceTo(TextOrEmpty(review.content), HashPrefixLen)
        author == TextOrEmpty(review.author)
        date == DateString(review.date)
        joined == content \o <<"_">> \o author \o <<"_">> \o date
        lowered == [i \in 1..Len(joined) |-> Lower(joined[i])]
        NotSpace(c) == ~IsSpace(c)
    IN  SelectSeq(lowered, NotSpace)

\* SaaSReviewsScraper.removeDuplicates: the first record of each hash, in order.
RECURSIVE removeDuplicatesFrom(_, _)
removeDuplicatesFrom(reviews, seen) ==
    IF reviews = <<>> THEN <<>>
    ELSE LET hash == createReviewHash(Head(reviews))
         IN  IF hash \in seen
             THEN removeDuplicatesFrom(Tail(reviews), seen)
             ELSE <<Head(reviews)>> \o removeDuplicatesFrom(Tail(reviews), seen \cup {hash})

\* A removeDuplicates that splices the duplicate out of the array it is
\* looping over, and so never looks at the record that follows a duplicate.
RECURSIVE removeDuplicatesSpliceFrom(_, _)
removeDuplicatesSpliceFrom(reviews, seen) ==
    IF reviews = <<>> THEN <<>>
    ELSE LET hash == createReviewHash(Head(reviews))
             rest == Tail(reviews)
         IN  IF hash \in seen
             THEN IF rest = <<>> THEN <<>>
                  ELSE <<Head(rest)>> \o removeDuplicatesSpliceFrom(Tail(rest), seen)
             ELSE <<Head(reviews)>> \o removeDuplicatesSpliceFrom(rest, seen \cup {hash})

removeDuplicatesSplice(reviews) == removeDuplicatesSpliceFrom(reviews, {})

\* A removeDuplicates that keeps the last record of each hash.
RECURSIVE removeDuplicatesLastFrom(_)
removeDuplicatesLastFrom(reviews) ==
    IF reviews = <<>> THEN <<>>
    ELSE LET hash == createReviewHash(Head(reviews))
             rest == Tail(reviews)
         IN  IF \E i \in 1..Len(rest) : createReviewHash(rest[i]) = hash
             THEN removeDuplicatesLastFrom(rest)
             ELSE <<Head(reviews)>> \o removeDuplicatesLastFrom(rest)

removeDuplicatesLast(reviews) == removeDuplicatesLastFrom(reviews)

removeDuplicates(reviews) == removeDuplicatesFrom(reviews, {})

\* The comparator of processResults' sort: dateB.diff(dateA) when both dates
\* are valid, else 0.
compareByDate(a, b) ==
    IF momentIsValid(a.date) /\ momentIsValid(b.date)
    THEN momentOf(b.date) - momentOf(a.date)
    ELSE 0

\* Array.prototype.sort(compareByDate) as Node's V8 runs it on an array
\* shorter than 64: the run the array starts with is taken as it is, or
\* reversed when it is strictly descending (CountAndMakeRun), and the rest is
\* put in by binary insertion (BinaryInsertionSort).
Reverse(s) == [i \in 1..Len(s) |-> s[Len(s) + 1 - i]]

\* Where the run that holds s[1..idx] ends.
RECURSIVE runEnd(_, _, _)
runEnd(s, idx, isDescending) ==
    IF idx = Len(s) THEN idx
    ELSE LET order == compareByDate(s[idx + 1], s[idx])
         IN  IF (isDescending /\ order >= 0) \/ (~isDescending /\ order < 0)
             THEN idx
             ELSE runEnd(s, idx + 1, isDescending)

\* The length of the first run, and the array with that run made ascending.
countAndMakeRun(s) ==
    LET isDescending == compareByDate(s[2], s[1]) < 0
        runLength == runEnd(s, 2, isDescending)
    IN  << runLength,
           IF isDescending
           THEN Reverse(SubSeq(s, 1, runLength)) \o SubSeq(s, runLength + 1, Len(s))
           ELSE s >>

\* Where pivot goes among s[left..right-1].
RECURSIVE binarySearch(_, _, _, _)
binarySearch(s, pivot, left, right) ==
    IF left >= right THEN left
    ELSE LET mid == left + ((right - left) \div 2)
         IN  IF compareByDate(pivot, s[mid]) < 0
             THEN binarySearch(s, pivot, left, mid)
             ELSE binarySearch(s, pivot, mid + 1, right)

\* s[start..] put one by one into the sorted s[1..start-1].
RECURSIVE binaryInsertionSort(_, _)
binaryInsertionSort(s, start) ==
    IF start > Len(s) THEN s
    ELSE LET pivot == s[start]
             left == binarySearch(s, pivot, 1, start)
             moved == SubSeq(s, 1, left - 1) \o <<pivot>> \o SubSeq(s, left, start - 1)
                        \o SubSeq(s, start + 1, Len(s))
         IN  binaryInsertionSort(moved, start + 1)

sortByDate(s) ==
    IF Len(s) < 2 THEN s
    ELSE LET run == countAndMakeRun(s)
         IN  binaryInsertionSort(run[2], run[1] + 1)

\* Helpers.cleanText on a non-empty text: whitespace runs become one space,
\* then trim.
collapseSpaces(t) ==
    LET LastOfRun(i) == ~IsSpace(t[i]) \/ i = Len(t) \/ ~IsSpace(t[i + 1])
        kept == SelectSeq([i \in 1..Len(t) |-> i], LastOfRun)
    IN  [k \in 1..Len(kept) |-> IF IsSpace(t[kept[k]]) THEN " " ELSE t[kept[k]]]

trim(t) ==
    LET c == collapseSpaces(t)
        a == IF c # <<>> /\ Head(c) = " " THEN Tail(c) ELSE c
    IN  IF a # <<>> /\ a[Len(a)] = " " THEN SubSeq(a, 1, Len(a) - 1) ELSE a

\* Helpers.cleanText(text) || null
cleanTextOrNull(t) ==
    IF t = NullText \/ t = <<>> \/ trim(t) = <<>> THEN NullText ELSE trim(t)

\* A parseDate that reads the string in local time and formats the instant
\* in UTC, east of Greenwich: the day before.
parseDateUtc(d) ==
    IF d.kind \in {"valid", "slashed"} \/ momentIsValid(d) THEN Day(d.day - 1) ELSE NullDate

\* Helpers.parseDate(date) || null: the strict formats, then moment's own
\* parsing; the answer is formatted 'YYYY-MM-DD'.
parseDate(d) ==
    IF d.kind \in {"valid", "slashed"} \/ momentIsValid(d) THEN Day(d.day) ELSE NullDate

\* A rating is null, NaN (parseFloat of a text that is no number) or a
\* number, held in hundredths.
NullRating == [kind |-> "null", val |-> 0]

NaNRating == [kind |-> "nan", val |-> 0]

Rating(hundredths) == [kind |-> "number", val |-> hundredths]

maxRating == 5

\* Helpers.normalizeRating, in hundredths: 0 for no rating, for 0 and below;
\* maxRating above it; else Math.round(rating * 10) / 10.
normalizeRating(rating) ==
    IF rating.kind # "number" \/ rating.val = 0 \/ rating.val < 0 THEN 0
    ELSE IF rating.val > 100 * maxRating THEN 100 * maxRating
    ELSE ((rating.val + 5) \div 10) * 10

\* Helpers.normalizeRating(data.rating) || null: 0 is falsy.
normalizeRatingOrNull(rating) ==
    IF normalizeRating(rating) = 0 THEN NullRating ELSE Rating(normalizeRating(rating))

\* data.title and the like: undefined, as falsy as null, when data has no
\* such property.
TextField(data, name) == IF name \in DOMAIN data THEN data[name] ELSE NullText

RatingField(data) == IF "rating" \in DOMAIN data THEN data.rating ELSE NullRating

\* The instants moment() can answer while results are processed.
Times == {"t1", "t2"}

\* Helpers.createReviewObject, called at the instant now.
createReviewObject(data, now) ==
    [id |-> data.id,
     title |-> cleanTextOrNull(TextField(data, "title")),
     content |-> cleanTextOrNull(data.content),
     rating |-> normalizeRatingOrNull(RatingField(data)),
     author |-> cleanTextOrNull(data.author),
     date |-> parseDate(data.date),
     source |-> data.source,
     pros |-> cleanTextOrNull(TextField(data, "pros")),
     cons |-> cleanTextOrNull(TextField(data, "cons")),
     scraped_at |-> now]

\* A success rate that cuts the fraction off: Math.floor in place of
\* Math.round.
FloorPercent(a, b) == (100 * a) \div b

\* Math.round((a / b) * 100) for a >= 0, b > 0
RoundPercent(a, b) == (200 * a + b) \div (2 * b)

\* processResults' final dataset, made at the instant now.
finalReviews(reviews, now) ==
    LET sorted == sortByDate(removeDuplicates(reviews))
    IN  [i \in 1..Len(sorted) |-> createReviewObject(sorted[i], now)]

\* A scrape() that answers true whether or not processResults threw.
runResultAlwaysTrue(saved) == "true"

\* scrape(): what it returns once reviews were collected: true when
\* processResults returned, false when it threw.
runResult(saved) == IF saved THEN "true" ELSE "false"

\* scrape(): reviews were collected; processResults, which throws when
\* saveToFile fails: for the reviews file, or in verbose mode for the
\* statistics file written after it.
ProcessResults ==
    /\ opc = "results"
    /\ Len(allReviews) > 0
    /\ \/ /\ result' = runResult(FALSE)
          /\ lastOp' = "savefail"
          /\ UNCHANGED << stats, outFile, filesSaved >>
       \/ /\ \E now \in Times : outFile' = finalReviews(allReviews, now)
          /\ stats' = [stats EXCEPT
                         !.totalReviews = Len(outFile'),
                         !.successRate = RoundPercent(Len(outFile'), Len(allReviews))]
          /\ \/ /\ filesSaved' = filesSaved \cup {"reviews"}
                /\ result' = runResult(TRUE)
                /\ lastOp' = "save"
             \/ /\ filesSaved' = filesSaved \cup {"reviews", "stats"}
                /\ result' = runResult(TRUE)
                /\ lastOp' = "save_verbose"
             \/ /\ filesSaved' = filesSaved \cup {"reviews"}
                /\ result' = runResult(FALSE)
                /\ lastOp' = "savefail_verbose"
    /\ opc' = "done"
    /\ UNCHANGED << options, scrapers, cur, allReviews, session, hpc, harvestVars, page,
                    errorLog, undelayedLoad >>
    /\ UNCHANGED searchVars

\* scrape(): no reviews were collected from any source.
NoDataCollected ==
    /\ opc = "results"
    /\ Len(allReviews) = 0
    /\ result' = "false"
    /\ opc' = "done"
    /\ lastOp' = "nodata"
    /\ UNCHANGED << options, scrapers, cur, allReviews, stats, outFile, filesSaved,
                    session, hpc, harvestVars, page, errorLog, undelayedLoad >>
    /\ UNCHANGED searchVars

(***************************************************************************)
(* Specification                                                            *)
(***************************************************************************)

\* Every step of a run but its start.
Steps ==
    \/ Initialize
    \/ UseDirectUrl
    \/ G2Search
    \/ LinkSearch
    \/ Collect
    \/ Cleanup
    \/ ProcessResults
    \/ NoDataCollected
    \/ CaptchaSignal
    \/ G2FirstLoad
    \/ G2FirstCheck
    \/ G2FirstCaptcha
    \/ G2PageLoad
    \/ G2PageCheck
    \/ G2PageCaptcha
    \/ G2Extract
    \/ G2Finish
    \/ CapterraPageLoad
    \/ CapterraPageCheck
    \/ CapterraPageCaptcha
    \/ CapterraExtract
    \/ CapterraFinish
    \/ TrustRadiusFirstLoad
    \/ TrustRadiusFirstCheck
    \/ TrustRadiusFirstCaptcha
    \/ TrustRadiusExtract
    \/ TrustRadiusLoadMore
    \/ TrustRadiusFinish

Next ==
    \/ StartScrape
    \/ Steps

Spec == Init /\ [][Next]_vars

(***************************************************************************)
(* processResults on merged records of every kind                           *)
(***************************************************************************)

\* How many records the merged input holds at most.
MaxMerged == 3

\* A content longer than the hash prefix, ending in c.
LongText(c) == [i \in 1..(HashPrefixLen + 1) |-> IF i <= HashPrefixLen THEN "a" ELSE c]

\* What scrapers can hand to the merge: the same review seen on two sites;
\* a record sharing the id of another (Date.now() and the index repeat) with
\* another text; the same text in another case and spacing; a record with no
\* author and no date; two long texts that part after the hash prefix; a
\* content and an author that hold an underscore.
MergeRecords ==
    { [id |-> <<"G2", 1, 1>>, source |-> "G2",
       content |-> <<"A", " ", "b">>, author |-> <<"x">>, date |-> Day(2)],
      [id |-> <<"Capterra", 1, 1>>, source |-> "Capterra",
       content |-> <<"A", " ", "b">>, author |-> <<"x">>, date |-> Day(2)],
      [id |-> <<"G2", 1, 1>>, source |-> "G2",
       content |-> <<"b">>, author |-> <<"y">>, date |-> Day(3)],
      [id |-> <<"TrustRadius", 1, 1>>, source |-> "TrustRadius",
       content |-> <<"a", "B", " ">>, author |-> <<"X">>, date |-> Day(2)],
      [id |-> <<"TrustRadius", 2, 1>>, source |-> "TrustRadius",
       content |-> <<"b">>, author |-> NullText, date |-> NullDate],
      [id |-> <<"Capterra", 1, 2>>, source |-> "Capterra",
       content |-> LongText("b"), author |-> <<"y">>, date |-> Day(1)],
      [id |-> <<"Capterra", 2, 2>>, source |-> "Capterra",
       content |-> LongText("c"), author |-> <<"y">>, date |-> Day(1)],
      [id |-> <<"G2", 2, 1>>, source |-> "G2",
       content |-> <<"b", "_", "y">>, author |-> <<"y">>, date |-> Day(3)],
      [id |-> <<"Capterra", 2, 1>>, source |-> "Capterra",
       content |-> <<"b">>, author |-> <<"y", "_", "y">>, date |-> Day(3)] }

\* The sequences of at most n merged records.
RECURSIVE MergedInputs(_)
MergedInputs(n) ==
    IF n = 0 THEN {<<>>}
    ELSE LET shorter == MergedInputs(n - 1)
         IN  shorter \cup { Append(m, r) : m \in shorter, r \in MergeRecords }

\* scrape() past its for loop over all sources, with some merged records.
MergeInit ==
    /\ opc = "results"
    /\ options = [company |-> TRUE, source |-> "all", url |-> FALSE,
                  dates |-> <<NullDate, NullDate>>, limit |-> LargeLimit]
    /\ scrapers = createScrapers("all")
    /\ cur = Len(scrapers) + 1
    /\ allReviews \in MergedInputs(MaxMerged)
    /\ stats = [totalReviews |-> 0, sources |-> <<>>, errors |-> <<>>, successRate |-> 0]
    /\ result = "none"
    /\ outFile = <<>>
    /\ filesSaved = {}
    /\ session = [a \in Adapters |-> NoSession]
    /\ hpc = "idle"
    /\ acc = <<>>
    /\ currentPage = 1
    /\ attempts = 0
    /\ ret = <<>>
    /\ resume = "idle"
    /\ page = NoPage
    /\ moreSteps = 0
    /\ pageReviews = <<>>
    /\ thisReviews = [a \in Adapters |-> <<>>]
    /\ errorLog = {}
    /\ undelayedLoad = FALSE
    /\ shown = NoView
    /\ results = NoResults
    /\ productUrl = NullUrl
    /\ lastOp = "cleanup"

MergeNext ==
    \/ ProcessResults
    \/ NoDataCollected

MergeSpec == MergeInit /\ [][MergeNext]_vars

(***************************************************************************)
(* Runs over one source, under fairness                                     *)
(***************************************************************************)

\* The options that select one source, or none that exists.
SingleSourceOptionSets == { o \in OptionSets : o.source # "all" }

StartSingleSource == StartScrapeWith(SingleSourceOptionSets)

LiveNext ==
    \/ StartSingleSource
    \/ Steps

\* Every call into the page driver and the file system returns, and the
\* human answers every CAPTCHA prompt: a step that can be taken is taken.
LiveSpec == Init /\ [][LiveNext]_vars /\ WF_vars(LiveNext)

(***************************************************************************)
(* scrape() called again on the same SaaSReviewsScraper                     *)
(***************************************************************************)

\* How many yielding sources this.stats may list before the instance is
\* left alone.
MaxYields == 2

\* The options of the repeated calls: a company, one of the three sources
\* or one that does not exist, no dates, the small limit.
RepeatOptionSets ==
    { o \in SingleSourceOptionSets :
        o.company /\ o.dates = <<NullDate, NullDate>> /\ o.limit = SmallLimit }

StartRepeatable == StartScrapeWith(RepeatOptionSets)

\* A further scrape(options) on the instance whose earlier call returned:
\* createScrapers builds new adapters and allReviews is a new array, while
\* this.stats is the object the constructor made and the files written stay.
ScrapeAgain ==
    /\ opc = "done"
    /\ Len(stats.sources) < MaxYields
    /\ \E o \in RepeatOptionSets :
        /\ options' = o
        /\ IF ~validateOptions(o)
           THEN /\ result' = "false"
                /\ opc' = "done"
                /\ UNCHANGED << scrapers, allReviews, session, thisReviews >>
           ELSE /\ scrapers' = createScrapers(o.source)
                /\ allReviews' = <<>>
                /\ session' = [a \in Adapters |-> NoSession]
                /\ thisReviews' = [a \in Adapters |-> <<>>]
                /\ opc' = "init"
                /\ result' = "none"
    /\ cur' = 1
    /\ lastOp' = "start"
    /\ UNCHANGED << stats, outFile, filesSaved, hpc, acc, currentPage, attempts, ret,
                    resume, moreSteps, pageReviews, shown, page, errorLog, undelayedLoad >>
    /\ UNCHANGED searchVars

RepeatNext ==
    \/ StartRepeatable
    \/ ScrapeAgain
    \/ Steps

RepeatSpec == Init /\ [][RepeatNext]_vars

(***************************************************************************)
(* filterReviewsByDateRange on batches with dates of every kind             *)
(***************************************************************************)

\* How many records a batch to filter holds at most.
MaxBatch == 2

\* The dates a scraped record may carry, around the range 2..3.
FilterDates ==
    { NullDate, JunkDate, Day(1), Day(2), Day(3), Day(4),
      DayTime(1), DayTime(2), DayTime(3), DaySlashed(3) }

\* The ranges scrapeReviews may be given: none, one end only, both ends.
FilterRanges ==
    { <<NullDate, NullDate>>, <<RangeStart, NullDate>>, <<NullDate, RangeEnd>>,
      <<RangeStart, RangeEnd>>, <<RangeStart, RangeStart>> }

\* The raw batches of at most n records.
RECURSIVE RawBatches(_)
RawBatches(n) ==
    IF n = 0 THEN {<<>>}
    ELSE LET shorter == RawBatches(n - 1)
         IN  shorter \cup
               { Append(b, [content |-> <<"a">>, author |-> <<"x">>, date |-> d]) :
                   b \in shorter, d \in FilterDates }

\* G2's scrapeReviews with a page's batch extracted, before the date filter.
FilterInit ==
    /\ opc = "harvest"
    /\ \E dates \in FilterRanges :
          options = [company |-> TRUE, source |-> "g2", url |-> TRUE,
                     dates |-> dates, limit |-> LargeLimit]
    /\ scrapers = createScrapers("g2")
    /\ cur = 1
    /\ allReviews = <<>>
    /\ stats = [totalReviews |-> 0, sources |-> <<>>, errors |-> <<>>, successRate |-> 0]
    /\ result = "none"
    /\ outFile = <<>>
    /\ filesSaved = {}
    /\ session = [a \in Adapters |-> IF a = "G2" THEN initialize(NoSession, "ok")
                                     ELSE NoSession]
    /\ hpc = "filter"
    /\ acc = <<>>
    /\ currentPage = 1
    /\ attempts = 0
    /\ ret = <<>>
    /\ resume = "idle"
    /\ page = [blocked |-> FALSE, captcha |-> FALSE, checked |-> TRUE, scanned |-> TRUE]
    /\ moreSteps = 0
    /\ \E b \in RawBatches(MaxBatch) : pageReviews = Stamp(b, "G2", currentPage)
    /\ thisReviews = [a \in Adapters |-> <<>>]
    /\ errorLog = {}
    /\ undelayedLoad = FALSE
    /\ shown = NoView
    /\ results = NoResults
    /\ productUrl = NullUrl
    /\ lastOp = "extract"

\* scrapeReviews: filter the page's batch by date and push what is left.
FilterBatch ==
    /\ opc = "harvest"
    /\ hpc = "filter"
    /\ acc' = acc \o filterReviewsByDateRange(pageReviews, startDate(options),
                                              endDate(options))
    /\ hpc' = "filtered"
    /\ lastOp' = "filter"
    /\ UNCHANGED << opc, orchVars, session, currentPage, attempts, ret, resume, page,
                    moreSteps, pageReviews, thisReviews, errorLog, undelayedLoad, shown >>
    /\ UNCHANGED searchVars

FilterNext == FilterBatch

FilterSpec == FilterInit /\ [][FilterNext]_vars

(***************************************************************************)
(* removeDuplicateReviews of Capterra and TrustRadius                       *)
(***************************************************************************)

\* How many records the accumulator and the batch hold at most.
MaxPushed == 2

\* What two pages of one site can show: a review, the same words by another
\* author, a review with no content, another one with no content, and a
\* review of its own.
PageRecords ==
    { [content |-> <<"a">>, author |-> <<"x">>, date |-> Day(2)],
      [content |-> <<"a">>, author |-> <<"y">>, date |-> Day(2)],
      [content |-> NullText, author |-> <<"x">>, date |-> Day(2)],
      [content |-> NullText, author |-> <<"y">>, date |-> Day(3)],
      [content |-> <<"b">>, author |-> <<"y">>, date |-> Day(2)] }

\* The lists of at most n of these records.
RECURSIVE PageLists(_)
PageLists(n) ==
    IF n = 0 THEN {<<>>}
    ELSE LET shorter == PageLists(n - 1)
         IN  shorter \cup { Append(b, r) : b \in shorter, r \in PageRecords }

\* scrapeReviews of Capterra or TrustRadius with the first page's records in
\* the accumulator and the second page's batch extracted, no date range.
PushInit ==
    /\ opc = "harvest"
    /\ \E source \in {"capterra", "trustradius"} :
          /\ options = [company |-> TRUE, source |-> source, url |-> TRUE,
                        dates |-> <<NullDate, NullDate>>, limit |-> LargeLimit]
          /\ scrapers = createScrapers(source)
    /\ cur = 1
    /\ allReviews = <<>>
    /\ stats = [totalReviews |-> 0, sources |-> <<>>, errors |-> <<>>, successRate |-> 0]
    /\ result = "none"
    /\ outFile = <<>>
    /\ filesSaved = {}
    /\ session = [a \in Adapters |-> IF a = Current THEN initialize(NoSession, "ok")
                                     ELSE NoSession]
    /\ hpc = "push"
    /\ \E first \in PageLists(MaxPushed) : acc = Stamp(first, Current, 1)
    /\ currentPage = 2
    /\ attempts = 2
    /\ ret = <<>>
    /\ resume = "idle"
    /\ page = [blocked |-> FALSE, captcha |-> FALSE, checked |-> TRUE, scanned |-> TRUE]
    /\ moreSteps = 0
    /\ \E second \in PageLists(MaxPushed) : pageReviews = Stamp(second, Current, 2)
    /\ thisReviews = [a \in Adapters |-> <<>>]
    /\ errorLog = {}
    /\ undelayedLoad = FALSE
    /\ shown = NoView
    /\ results = NoResults
    /\ productUrl = NullUrl
    /\ lastOp = "extract"

\* this.removeDuplicateReviews(allReviews, ...) of the adapter at work.
removeDuplicateReviews(existingReviews, newReviews) ==
    IF Current = "Capterra"
    THEN CapterraRemoveDuplicateReviews(existingReviews, newReviews)
    ELSE TrustRadiusRemoveDuplicateReviews(existingReviews, newReviews)

\* scrapeReviews: filter the batch by date, drop what the accumulator is
\* taken to hold already, push the rest.
PushUnique ==
    /\ opc = "harvest"
    /\ hpc = "push"
    /\ acc' = acc \o removeDuplicateReviews(acc,
                    filterReviewsByDateRange(pageReviews, startDate(options),
                                             endDate(options)))
    /\ hpc' = "pushed"
    /\ lastOp' = "push"
    /\ UNCHANGED << opc, orchVars, session, currentPage, attempts, ret, resume, page,
                    moreSteps, pageReviews, thisReviews, errorLog, undelayedLoad, shown >>
    /\ UNCHANGED searchVars

PushNext == PushUnique

PushSpec == PushInit /\ [][PushNext]_vars

(***************************************************************************)
(* createReviewObject on raw records of every kind                          *)
(***************************************************************************)

\* The texts an extraction can put in a field.
RawTexts == { NullText, <<>>, <<" ">>, <<"a">>, <<" ", "a", "\n", "\n", "b", " ">> }

\* The ratings an extraction can put in a record, in hundredths: none, no
\* number, below the scale, zero, next to zero, between two tenths, the top
\* of the scale, above it.
RawRatings ==
    { NullRating, NaNRating, Rating(0 - 100), Rating(0), Rating(4), Rating(444),
      Rating(445), Rating(500), Rating(501), Rating(700) }

\* The dates an extraction can put in a record.
RawDates == { NullDate, JunkDate, Day(2), DayTime(2), DaySlashed(3) }

\* What extractG2Reviews and extractCapterraReviews build for a review.
RawRecords ==
    { [id |-> <<"G2", 1, 1>>, title |-> t, rating |-> r, author |-> <<"x">>, date |-> d,
       content |-> c, pros |-> NullText, cons |-> <<"b", " ">>, source |-> "G2"] :
        t \in RawTexts, c \in {<<"a">>, <<" ", "a", "\n", "\n", "b", " ">>},
        r \in RawRatings, d \in RawDates }

\* What extractTrustRadiusReviews builds for a review that has no rating
\* element: the reviewer's details, the votes and the verified mark as well.
RawTrustRadiusRecords ==
    { [id |-> <<"TrustRadius", 1, 1>>, title |-> t, content |-> <<"a">>,
       rating |-> NullRating, author |-> <<"x">>, date |-> d, job_title |-> NullText,
       company_size |-> <<"b">>, industry |-> <<"a">>, pros |-> NullText,
       cons |-> NullText, helpful_count |-> 1, verified |-> TRUE,
       source |-> "TrustRadius"] :
        t \in RawTexts, d \in RawDates }

\* scrape() past its for loop, with one raw record collected.
NormalizeInit ==
    /\ opc = "results"
    /\ options = [company |-> TRUE, source |-> "all", url |-> FALSE,
                  dates |-> <<NullDate, NullDate>>, limit |-> LargeLimit]
    /\ scrapers = createScrapers("all")
    /\ cur = Len(scrapers) + 1
    /\ \E r \in RawRecords \cup RawTrustRadiusRecords : allReviews = <<r>>
    /\ stats = [totalReviews |-> 0, sources |-> <<>>, errors |-> <<>>, successRate |-> 0]
    /\ result = "none"
    /\ outFile = <<>>
    /\ filesSaved = {}
    /\ session = [a \in Adapters |-> NoSession]
    /\ hpc = "idle"
    /\ acc = <<>>
    /\ currentPage = 1
    /\ attempts = 0
    /\ ret = <<>>
    /\ resume = "idle"
    /\ page = NoPage
    /\ moreSteps = 0
    /\ pageReviews = <<>>
    /\ thisReviews = [a \in Adapters |-> <<>>]
    /\ errorLog = {}
    /\ undelayedLoad = FALSE
    /\ shown = NoView
    /\ results = NoResults
    /\ productUrl = NullUrl
    /\ lastOp = "cleanup"

\* The records of the file written, put through createReviewObject again at
\* a later instant.
Renormalize ==
    /\ opc = "done"
    /\ outFile # <<>>
    /\ lastOp # "renormalize"
    /\ \E now \in Times :
          outFile' = [i \in 1..Len(outFile) |-> createReviewObject(outFile[i], now)]
    /\ lastOp' = "renormalize"
    /\ UNCHANGED << opc, options, scrapers, cur, allReviews, stats, result, filesSaved,
                    session, hpc, harvestVars, page, errorLog, undelayedLoad >>
    /\ UNCHANGED searchVars

NormalizeNext ==
    \/ ProcessResults
    \/ Renormalize

NormalizeSpec == NormalizeInit /\ [][NormalizeNext]_vars

(***************************************************************************)
(* Properties                                                               *)
(***************************************************************************)

\* The records the first n scrapers of the run returned, in the run's order.
RECURSIVE Returned(_)
Returned(n) ==
    IF n = 0 THEN <<>> ELSE Returned(n - 1) \o thisReviews[scrapers[n]]

\* No date range was given to the run.
NoRange == ~Truthy(startDate(options)) \/ ~Truthy(endDate(options))

\* The calls that ask the site for more: a page load, a load-more click, a
\* next-page click.
Requests == {"nav", "navfail", "loadmore", "nextpage"}

\* C1: per-source isolation.  Once the for loop of a valid run is left, it has
\* gone through every selected scraper, whatever failed on the way, and the
\* merged records are exactly what the scrapers returned, in their order.
C1_PerSourceIsolation ==
    (opc \in {"results", "done"} /\ validateOptions(options)) =>
        /\ cur = Len(scrapers) + 1
        /\ allReviews = Returned(Len(scrapers))

\* C1: a run over all sources in which G2 was blocked, Capterra returned
\* nothing and TrustRadius's records still made the merged set.
C1_Witness ==
    /\ opc = "done"
    /\ Len(scrapers) = 3
    /\ "G2" \in errorLog
    /\ thisReviews["Capterra"] = <<>>
    /\ thisReviews["TrustRadius"] # <<>>
    /\ allReviews = thisReviews["TrustRadius"]

\* C2: run outcome.  A valid run ends with false and nothing written when no
\* scraper returned a record; with true when records were returned and every
\* file was written; with false when a write failed.
C2_RunOutcome ==
    (opc = "done" /\ validateOptions(options)) =>
        /\ (\A i \in 1..Len(scrapers) : thisReviews[scrapers[i]] = <<>>)
               => (result = "false" /\ filesSaved = {} /\ outFile = <<>>)
        /\ ((\E i \in 1..Len(scrapers) : thisReviews[scrapers[i]] # <<>>)
               /\ lastOp \in {"save", "save_verbose"})
               => (result = "true" /\ "reviews" \in filesSaved)
        /\ lastOp \in {"savefail", "savefail_verbose"} => result = "false"
        /\ result = "true" => lastOp \in {"save", "save_verbose"}

\* C2: a run that collected records and failed to write the reviews file.
C2_Witness ==
    /\ opc = "done"
    /\ allReviews # <<>>
    /\ lastOp = "savefail"
    /\ result = "false"

\* C3: limit-driven pagination.  With no date range, after a page that
\* returned records the harvest asks the site for more while it holds fewer
\* records than the limit, and once it holds the limit it returns exactly
\* limit records without asking for more.
C3_LimitDrivenPagination ==
    [][ (opc = "harvest" /\ NoRange /\ lastOp = "extract" /\ pageReviews # <<>>) =>
            IF Len(acc) >= options.limit
            THEN lastOp' = "return" /\ Len(ret') = options.limit
            ELSE lastOp' \in Requests \cup {"nomore"} ]_vars

\* C4: range exhaustion stops the harvest.  With a date range, after a batch
\* that held records none of which is in the range, the harvest returns
\* without asking the site for more.
C4_RangeExhaustionStops ==
    [][ ( /\ opc = "harvest"
          /\ ~NoRange
          /\ lastOp = "extract"
          /\ pageReviews # <<>>
          /\ filterReviewsByDateRange(pageReviews, startDate(options),
                                      endDate(options)) = <<>> )
        => lastOp' = "return" ]_vars

\* C5: guard after every navigation.  The page an extraction has just read
\* had its title checked for blocking keywords since it was loaded.
C5_GuardAfterEveryNavigation ==
    lastOp = "extract" => page.checked

\* C6: blocked aborts the source.  While the page the harvest has loaded
\* carries a blocking title, the harvest neither extracts from it nor asks
\* the site for anything more.
C6_BlockedAbortsSource ==
    [][ (opc = "harvest" /\ hpc # "start" /\ page.blocked)
            => lastOp' \notin Requests \cup {"extract"} ]_vars

\* C7: failures are recorded in statistics.  At the end of the run every
\* scraper whose harvest was ended by a detected blocking has an entry in
\* stats.errors.
C7_FailuresRecordedInStatistics ==
    opc = "done" =>
        \A a \in errorLog :
            \E i \in 1..Len(stats.errors) : stats.errors[i].scraper = a

\* C8: extraction only from Clear.  The page an extraction has just read
\* carries neither a blocking title nor an unresolved CAPTCHA marker.
C8_ExtractionOnlyFromClear ==
    lastOp = "extract" => (~page.blocked /\ ~page.captcha)

\* C9: the CAPTCHA wait is unbounded.  A scan that finds a marker suspends
\* the harvest; the suspended harvest takes no step but the human's signal;
\* and the step after the signal is the extraction of the very page.
C9_CaptchaWaitThenSamePage ==
    [][ /\ (lastOp' = "captcha" /\ captchaFound(page)) => hpc' = "captcha_wait"
        /\ hpc = "captcha_wait" => lastOp' = "signal"
        /\ lastOp = "signal" => (lastOp' = "extract" /\ page' = page) ]_vars

\* C10: exclusive sequential sessions.  When a scraper is about to
\* initialise, every earlier scraper of the run holds no browser and no page.
C10_EarlierSessionsReleased ==
    opc = "init" => \A i \in 1..(cur - 1) : session[scrapers[i]] = NoSession

\* C11: a cleanup failure never aborts the run.  A cleanup whose close threw
\* (the session is still held after it) only moves the for loop to the next
\* scraper, or past the loop after the last one; the run has not ended, and
\* the merged records are still all that the scrapers so far returned.
C11_CleanupFailureNeverAborts ==
    [][ (opc = "cleanup" /\ session'[Current] # NoSession) =>
            /\ cur' = cur + 1
            /\ opc' = (IF cur = Len(scrapers) THEN "results" ELSE "init")
            /\ result' = "none"
            /\ allReviews' = Returned(cur) ]_vars

\* C11: G2's cleanup has just failed after its records were merged, and the
\* loop stands at the next scraper.
C11_Witness ==
    /\ lastOp = "cleanup"
    /\ opc = "init"
    /\ cur = 2
    /\ session["G2"] # NoSession
    /\ allReviews # <<>>

\* processResults wrote the reviews file.
Saved == opc = "done" /\ lastOp \in {"save", "save_verbose", "savefail_verbose"}

\* The records of X that are the first of their hash, in the order of X.
FirstOfEachKey(X) ==
    LET IsFirst(i) == \A j \in 1..(i - 1) : createReviewHash(X[j]) # createReviewHash(X[i])
        firsts == SelectSeq([i \in 1..Len(X) |-> i], IsFirst)
    IN  [k \in 1..Len(firsts) |-> X[firsts[k]]]

\* A text lower-cased and with its whitespace taken out.
Normalized(t) ==
    LET NotSpace(c) == ~IsSpace(c)
    IN  SelectSeq([i \in 1..Len(t) |-> Lower(t[i])], NotSpace)

\* The identity key of a record, part by part.
KeyParts(r) ==
    << Normalized(SliceTo(TextOrEmpty(r.content), HashPrefixLen)),
       Normalized(TextOrEmpty(r.author)),
       Normalized(DateString(r.date)) >>

\* C12: dedup convergence.  On every merged input, removing duplicates from
\* the deduplicated records changes nothing, and deduplication never makes
\* the sequence longer; the file written holds that many records.
C12_DedupConvergence ==
    /\ removeDuplicates(removeDuplicates(allReviews)) = removeDuplicates(allReviews)
    /\ Len(removeDuplicates(allReviews)) <= Len(allReviews)
    /\ Saved => Len(outFile) = Len(removeDuplicates(allReviews))

\* C12: three merged records of which deduplication dropped two.
C12_Witness ==
    /\ Saved
    /\ Len(allReviews) = 3
    /\ Len(outFile) = 1

\* C13: first-seen wins.  The deduplicated records are the merged input's
\* records that are the first of their key, in merge order, and the file
\* written holds exactly those records.
C13_FirstSeenWins ==
    /\ removeDuplicates(allReviews) = FirstOfEachKey(allReviews)
    /\ Saved =>
          LET firsts == FirstOfEachKey(allReviews)
          IN  { <<outFile[i].id, outFile[i].source>> : i \in 1..Len(outFile) }
                = { <<firsts[i].id, firsts[i].source>> : i \in 1..Len(firsts) }

\* C13: G2 and then Capterra returned the same content, author and date; the
\* file written holds one record, G2's.
C13_Witness ==
    /\ Saved
    /\ Len(allReviews) = 2
    /\ allReviews[1].source = "G2"
    /\ allReviews[2].source = "Capterra"
    /\ allReviews[1].content = allReviews[2].content
    /\ allReviews[1].author = allReviews[2].author
    /\ allReviews[1].date = allReviews[2].date
    /\ Len(outFile) = 1
    /\ outFile[1].source = "G2"

\* C14: deduplication is content-based, not id-based.  No two deduplicated
\* records agree on the first 100 characters of content, the author and the
\* date once lower-cased and stripped of whitespace, whatever their ids; and
\* every key of the merged input is still there, whatever ids its records
\* share with others.
C14_ContentBasedDedup ==
    LET unique == removeDuplicates(allReviews)
    IN  /\ \A i, j \in 1..Len(unique) :
              KeyParts(unique[i]) = KeyParts(unique[j]) => i = j
        /\ \A i \in 1..Len(allReviews) :
              \E k \in 1..Len(unique) :
                  createReviewHash(unique[k]) = createReviewHash(allReviews[i])
        /\ \A i, j \in 1..Len(allReviews) :
              ( /\ allReviews[i].id = allReviews[j].id
                /\ createReviewHash(allReviews[i]) # createReviewHash(allReviews[j]) )
              => \E k, l \in 1..Len(unique) :
                     /\ k # l
                     /\ createReviewHash(unique[k]) = createReviewHash(allReviews[i])
                     /\ createReviewHash(unique[l]) = createReviewHash(allReviews[j])

\* C14: a record, the same text under another id, case and spacing, and
\* another text under the first record's id: the file written holds two.
C14_Witness ==
    /\ Saved
    /\ Len(allReviews) = 3
    /\ allReviews[1].id # allReviews[2].id
    /\ allReviews[1].content # allReviews[2].content
    /\ KeyParts(allReviews[1]) = KeyParts(allReviews[2])
    /\ allReviews[3].id = allReviews[1].id
    /\ KeyParts(allReviews[3]) # KeyParts(allReviews[1])
    /\ Len(outFile) = 2

\* C15: order invariant.  In the file written, of two records with dates
\* the later-dated one comes first, and records with equal dates or with no
\* date stand in their merge order.
C15_OrderInvariant ==
    Saved =>
        /\ \A i, j \in 1..Len(outFile) :
              (i < j /\ outFile[i].date # NullDate /\ outFile[j].date # NullDate)
                  => outFile[i].date.day >= outFile[j].date.day
        /\ LET unique == removeDuplicates(allReviews)
               Place(r) == CHOOSE k \in 1..Len(unique) :
                               unique[k].id = r.id /\ unique[k].source = r.source
                                   /\ createReviewObject(unique[k], r.scraped_at) = r
           IN  \A i, j \in 1..Len(outFile) :
                  (i < j /\ outFile[i].date = outFile[j].date)
                      => Place(outFile[i]) < Place(outFile[j])

\* C16: range filter correctness.  With both ends of the range supplied, the
\* records that survive the filter are exactly those whose date the
\* normaliser reads and whose day is within start..end, ends included.
C16_RangeFilterCorrectness ==
    (hpc = "filtered" /\ ~NoRange) =>
        LET InRange(r) ==
                /\ parseDate(r.date) # NullDate
                /\ startDate(options).day <= parseDate(r.date).day
                /\ parseDate(r.date).day <= endDate(options).day
        IN  acc = SelectSeq(pageReviews, InRange)

\* C17: fail-open without a full range.  When the start date, the end date
\* or both are absent, the filter hands back its batch as it was.
C17_FailOpenWithoutFullRange ==
    (hpc = "filtered" /\ NoRange) => acc = pageReviews

\* C17: only a start date was given, and a batch holding an undated record
\* and a record older than the start date came back whole.
C17_Witness ==
    /\ hpc = "filtered"
    /\ Truthy(startDate(options))
    /\ ~Truthy(endDate(options))
    /\ Len(pageReviews) = 2
    /\ pageReviews[1].date = NullDate
    /\ pageReviews[2].date = Day(1)
    /\ acc = pageReviews

\* C18: per-source cap, no global cap.  What a scraper returns is never longer
\* than the limit; the merged records are never more than limit times the
\* number of scrapers, and past the loop they are as many as the scrapers
\* returned together, with nothing cut.
C18_PerSourceCapNoGlobalCap ==
    /\ Len(ret) <= options.limit
    /\ \A a \in Adapters : Len(thisReviews[a]) <= options.limit
    /\ Len(allReviews) <= options.limit * Len(scrapers)
    /\ (opc \in {"results", "done"} /\ validateOptions(options))
           => Len(allReviews) = Len(Returned(Len(scrapers)))

\* C18: a run over three sources that merged limit records from each, more
\* than the limit.
C18_Witness ==
    /\ opc = "done"
    /\ Len(scrapers) = 3
    /\ Len(allReviews) = options.limit * 3
    /\ Len(allReviews) > options.limit

\* The batch fetches of the current harvest are within the adapter's bound.
FetchesBounded ==
    opc = "harvest" =>
        CASE Current = "G2" ->
                 currentPage <= CeilDiv(options.limit, G2PerPage) + 1
                 /\ (hpc = "extract" => currentPage <= CeilDiv(options.limit, G2PerPage))
          [] Current = "Capterra" ->
                 currentPage <= CeilDiv(options.limit, CapterraPerPage) + 1
                 /\ (hpc = "extract" => currentPage <= CeilDiv(options.limit, CapterraPerPage))
          [] OTHER -> attempts <= maxAttempts

\* C19: every source harvest terminates.  The pages G2 and Capterra fetch
\* and the attempts TrustRadius makes stay within their bounds; and when
\* every call returns and every CAPTCHA prompt is answered, every harvest
\* returns and the run ends.
C19_EveryHarvestTerminates ==
    /\ []FetchesBounded
    /\ [](opc = "harvest" => <>(opc = "collect"))
    /\ <>(opc = "done")

\* C19: a TrustRadius harvest that has used up its attempts on a site that
\* offered more at every one of them.
C19_Witness ==
    /\ opc = "harvest"
    /\ Current = "TrustRadius"
    /\ attempts = maxAttempts
    /\ moreSteps = maxAttempts

\* The calls of searchForCompany, by what they ended with: a product URL, a
\* search page that did not load, a search page without a product link.
Searches == {"search", "searchfail", "nolink"}

\* C20: direct URL precedence.  With a direct URL, searchForCompany is never
\* called and every harvest is entered with the URL given; without one, a
\* harvest is entered only from a search.
C20_DirectUrlPrecedence ==
    [][ /\ lastOp' \in Searches => ~options.url
        /\ (opc = "search" /\ options.url) => (lastOp' = "url" /\ opc' = "harvest")
        /\ (opc = "search" /\ opc' = "harvest" /\ ~options.url)
               => lastOp' \in Searches ]_vars

\* C20: a run over all sources with a direct URL, at its third harvest.
C20_Witness ==
    /\ options.url
    /\ cur = 3
    /\ opc = "harvest"
    /\ lastOp = "url"

\* C21: SourceUnavailable is non-fatal.  When searchForCompany answers null
\* for a source (Capterra or TrustRadius: the search page did not load or
\* held no product link), no harvest is entered and nothing is merged or
\* recorded in the statistics; the next step is the source's cleanup, which
\* merges and records nothing either, and after it the for loop stands at the
\* next source, or past the loop, with the run not ended.
C21_SourceUnavailableNonFatal ==
    [][ /\ (opc = "search" /\ Current # "G2" /\ lastOp' \in {"searchfail", "nolink"})
            => /\ opc' = "cleanup"
               /\ hpc' = "idle"
               /\ thisReviews'[Current] = <<>>
               /\ allReviews' = allReviews
               /\ stats' = stats
               /\ errorLog' = errorLog
        /\ (opc = "cleanup" /\ lastOp \in {"searchfail", "nolink"})
            => /\ lastOp' = "cleanup"
               /\ \E outcome \in {"ok", "pageCloseFail", "browserCloseFail"} :
                      session'[Current] = cleanup(session[Current], outcome)
               /\ allReviews' = allReviews
               /\ stats' = stats
               /\ stats.errors = <<>>
               /\ cur' = cur + 1
               /\ opc' = (IF cur = Len(scrapers) THEN "results" ELSE "init")
               /\ result' = "none" ]_vars

\* C21: in a run over all sources G2 returned records, and Capterra's search
\* page has just been found to hold no product link.
C21_Witness ==
    /\ opc = "cleanup"
    /\ lastOp = "nolink"
    /\ Current = "Capterra"
    /\ Len(scrapers) = 3
    /\ allReviews # <<>>
    /\ allReviews = thisReviews["G2"]

\* The reviews of the entries whose fields can be read, in the page's order.
Readable(entries) ==
    LET Reads(e) == ~e.throws
    IN  Reviews(SelectSeq(entries, Reads))

\* The records of a batch as the page showed them, without id and source tag.
AsShown(records) ==
    [i \in 1..Len(records) |->
        [content |-> records[i].content, author |-> records[i].author,
         date |-> records[i].date]]

\* C22: per-record extraction isolation.  In every adapter, the batch an
\* extraction has just returned holds every review of the page whose fields
\* could be read, whatever the other entries threw; and when one of those
\* reviews passes the date filter the pagination has not been stopped.
C22_PerRecordExtractionIsolation ==
    lastOp = "extract" =>
        /\ AsShown(pageReviews) = Readable(shown.entries)
        /\ filterReviewsByDateRange(Readable(shown.entries), startDate(options),
                                    endDate(options)) # <<>>
              => hpc # "finish"

\* The steps that issue a page.goto: the search navigation, the initial load
\* and the pagination loads, whether the page loaded or not.
Loads == {"search", "searchfail", "nolink", "nav", "navfail"}

\* C23: unconditional politeness delay.  No page load is issued while the
\* source's previous load has had no delay after it, whether that load
\* succeeded or failed.
C23_UnconditionalPolitenessDelay ==
    [][ lastOp' \in Loads => ~undelayedLoad ]_vars

\* C24: success rate.  Once the reviews file is written, stats.totalReviews
\* is the number of records in the file, which is the post-dedup count, and
\* stats.successRate is an integer between 0 and 100 within one half of
\* (post-dedup count / merged count) x 100.
C24_SuccessRate ==
    Saved =>
        /\ stats.totalReviews = Len(outFile)
        /\ Len(outFile) = Len(removeDuplicates(allReviews))
        /\ stats.successRate \in 0..100
        /\ LET diff == stats.successRate * Len(allReviews) - 100 * Len(outFile)
           IN  /\ 2 * diff <= Len(allReviews)
               /\ 2 * (0 - diff) <= Len(allReviews)

\* C24: of three merged records two were kept: 67 per cent.
C24_Witness ==
    /\ Saved
    /\ result = "true"
    /\ Len(allReviews) = 3
    /\ stats.totalReviews = 2
    /\ stats.successRate = 67

\* C25: idempotent normalization.  A record of the file written, put through
\* createReviewObject again, comes out as it was in every field but
\* scraped_at; and a record whose date was a valid YYYY-MM-DD string is
\* written with that very date.
C25_IdempotentNormalization ==
    [][ /\ lastOp' = "renormalize" =>
              /\ Len(outFile') = Len(outFile)
              /\ \A i \in 1..Len(outFile) :
                    [outFile'[i] EXCEPT !.scraped_at = outFile[i].scraped_at] = outFile[i]
        /\ lastOp' \in {"save", "save_verbose", "savefail_verbose"} =>
              \A i \in 1..Len(outFile') : \A j \in 1..Len(allReviews) :
                  (allReviews[j].id = outFile'[i].id /\ validateDate(allReviews[j].date))
                      => outFile'[i].date = allReviews[j].date ]_vars

\* C25: a record whose title was full of whitespace, whose date was written
\* DD/MM/YYYY and whose rating lay between two tenths, normalised a second
\* time at a later instant.
C25_Witness ==
    /\ lastOp = "renormalize"
    /\ allReviews[1].title = <<" ", "a", "\n", "\n", "b", " ">>
    /\ allReviews[1].date = DaySlashed(3)
    /\ allReviews[1].rating = Rating(445)
    /\ outFile[1].title = <<"a", " ", "b">>
    /\ outFile[1].date = Day(3)
    /\ outFile[1].rating = Rating(450)
    /\ outFile[1].scraped_at = "t2"

\* A number of hundredths clamped into 0..5 and rounded to a tenth.
ClampedAndRounded(hundredths) ==
    IF hundredths < 0 THEN 0
    ELSE IF hundredths > 500 THEN 500
    ELSE ((hundredths + 5) \div 10) * 10

\* C26: rating normalisation.  A record extracted with a numeric rating is
\* written with that rating clamped into 0..5 and rounded to one decimal
\* place, 0 for zero and below and 5 above 5; a record extracted without a
\* rating is written with null.
C26_RatingNormalisation ==
    (Saved /\ Len(allReviews) = 1) =>
        /\ allReviews[1].rating.kind = "number" =>
               outFile[1].rating = Rating(ClampedAndRounded(allReviews[1].rating.val))
        /\ allReviews[1].rating = NullRating => outFile[1].rating = NullRating

\* C27: output record fields.  Every record of the file written has the
\* fields id, title, content, rating, author, date, source, pros, cons and
\* scraped_at, and the fields url, helpful_count, verified, company_size and
\* industry as well.
C27_OutputRecordFields ==
    Saved =>
        \A i \in 1..Len(outFile) :
            { "id", "title", "content", "rating", "author", "date", "source", "pros",
              "cons", "scraped_at", "url", "helpful_count", "verified", "company_size",
              "industry" } \subseteq DOMAIN outFile[i]

\* C28: CAPTCHA detection is independent of the keyword check.  A loaded page
\* that carries a CAPTCHA marker goes from the title check to the scan of its
\* DOM, whatever its title, and from the scan to the wait for the human.
C28_CaptchaIndependentOfKeywords ==
    [][ /\ (opc = "harvest" /\ captchaFound(page) /\ hpc \in {"first_check", "page_check"})
            => (opc' = "harvest" /\ hpc' \in {"first_captcha", "page_captcha"})
        /\ (opc = "harvest" /\ captchaFound(page) /\ hpc \in {"first_captcha", "page_captcha"})
            => hpc' = "captcha_wait" ]_vars

\* The pagination of G2 or Capterra was left at a page after the first by a
\* navigation that failed or by a title that says blocked.
StoppedEarly ==
    /\ opc = "harvest" /\ Current \in {"G2", "Capterra"}
    /\ hpc = "finish" /\ currentPage > 1
    /\ lastOp = "navfail" \/ (lastOp = "check" /\ checkForBlocking(page))

\* The records come from pages 1..k-1, page after page, each page's in the
\* order of its DOM.
InPageOrder(s, k) ==
    /\ \A i \in 1..Len(s) : s[i].id[3] \in 1..(k - 1)
    /\ \A i, j \in 1..Len(s) :
          i < j => \/ s[i].id[3] < s[j].id[3]
                   \/ (s[i].id[3] = s[j].id[3] /\ s[i].id[2] < s[j].id[2])

\* Every record passes the date filter of the run.
DateFiltered(s) ==
    filterReviewsByDateRange(s, startDate(options), endDate(options)) = s

\* C29: partial results survive early termination.  When a navigation failure
\* or a blocking detection stops the pagination of G2 or Capterra at page
\* k > 1, the next step returns the accumulator cut to the limit: records of
\* pages 1..k-1, date-filtered, in page order; and what a harvest returned is
\* appended to the merged set by the step after.
C29_PartialResultsSurvive ==
    [][ /\ StoppedEarly =>
              /\ lastOp' = "return" /\ opc' = "collect"
              /\ ret' = SliceTo(acc, options.limit)
              /\ InPageOrder(ret', currentPage)
              /\ DateFiltered(ret')
        /\ (opc = "collect" /\ Current \in {"G2", "Capterra"}) =>
              /\ lastOp' = "collect"
              /\ allReviews' = allReviews \o ret ]_vars

\* G2 alone, blocked after its first pages: the title check logged the block
\* (at the first load or at page 1 nothing would have been gathered), and the
\* records gathered before it are the merged set.
C29_Witness ==
    /\ lastOp = "collect" /\ Current = "G2" /\ Len(scrapers) = 1
    /\ "G2" \in errorLog
    /\ Len(ret) > 0
    /\ allReviews = ret

\* What the adapter at work extracts from a view, stamped as the step at
\* hand stamps it (the page for G2 and Capterra, the attempt for TrustRadius).
ExtractionOf(view, pageNo, attempt) ==
    CASE Current = "G2" -> extractG2Reviews(view.entries, pageNo)
      [] Current = "Capterra" -> extractCapterraReviews(view.entries, pageNo)
      [] OTHER -> extractTrustRadiusReviews(view.entries, attempt)

\* C30: a content wait that times out is not fatal.  The step whose wait for
\* the review elements timed out stays in the harvest and extracts; when the
\* extraction yields no record the pagination of this source ends with the
\* accumulator as it was, and the step after returns it cut to the limit.
C30_ContentWaitTimeoutNotFatal ==
    [][ /\ (lastOp' = "extract" /\ shown'.waited = "timeout") =>
              /\ opc' = "harvest"
              /\ pageReviews' = ExtractionOf(shown', currentPage, attempts')
              /\ pageReviews' = <<>> => (hpc' = "finish" /\ acc' = acc)
        /\ (opc = "harvest" /\ lastOp = "extract" /\ shown.waited = "timeout"
                /\ pageReviews = <<>>) =>
              /\ lastOp' = "return" /\ opc' = "collect"
              /\ ret' = SliceTo(acc, options.limit) ]_vars

\* The wait timed out on a later page, nothing was extracted from it, and the
\* records of the earlier pages are still in the accumulator.
C30_Witness ==
    /\ opc = "harvest" /\ hpc = "finish"
    /\ lastOp = "extract" /\ shown.waited = "timeout"
    /\ pageReviews = <<>>
    /\ Len(acc) > 0

\* The step at hand is the page request of the pagination loop of G2 or
\* Capterra; the page it asks for is currentPage.
PageRequest ==
    /\ opc = "harvest" /\ Current \in {"G2", "Capterra"}
    /\ hpc \in {"start", "loop"}
    /\ lastOp' \in {"nav", "navfail"}
    /\ hpc' \in {"page_check", "finish"}

\* The accumulator ends with what the adapter at work pushes for the batch:
\* the date-filtered batch for G2, and for Capterra the date-filtered batch
\* without the contents the accumulator held before.
BatchAppended(batch) ==
    LET filtered == filterReviewsByDateRange(batch, startDate(options), endDate(options))
    IN  \E n \in 0..Len(acc) :
            LET before == SubSeq(acc, 1, n)
            IN  acc = before \o (IF Current = "G2" THEN filtered
                                 ELSE CapterraRemoveDuplicateReviews(before, filtered))

\* C31: pagination is strictly sequential and in order.  Within one G2 or
\* Capterra harvest the first page request asks for page 1, and every later
\* request asks for the page right after the one whose batch was extracted in
\* the step before, that batch being date-filtered and appended to the
\* accumulator; the page index moves by one, at an extraction only.
C31_PaginationSequential ==
    [][ /\ PageRequest =>
              IF lastOp = "extract"
              THEN /\ Len(pageReviews) > 0
                   /\ \A i \in 1..Len(pageReviews) : pageReviews[i].id[3] = currentPage - 1
                   /\ BatchAppended(pageReviews)
              ELSE currentPage = 1
        /\ (opc = "harvest" /\ opc' = "harvest" /\ Current \in {"G2", "Capterra"}) =>
              \/ currentPage' = currentPage
              \/ currentPage' = currentPage + 1 /\ lastOp' = "extract" ]_vars

\* Capterra has loaded page 2 after the batch of page 1 went into the
\* accumulator.
C31_Witness ==
    /\ opc = "harvest" /\ Current = "Capterra"
    /\ hpc = "page_check" /\ lastOp = "nav"
    /\ currentPage = 2
    /\ Len(acc) > 0 /\ acc[1].id[3] = 1

\* this.stats as the constructor makes it.
FreshStats ==
    /\ stats.sources = <<>> /\ stats.errors = <<>>
    /\ stats.totalReviews = 0 /\ stats.successRate = 0

\* C32: statistics are per run.  At the start of every scrape() call, the
\* first on an instance or a later one, the list of yielding sources and the
\* list of errors are empty and the counts are zero.
C32_StatisticsPerRun == lastOp = "start" => FreshStats

\* The adapter's scrapeReviews returned at least one record in this run:
\* this.reviews is what it returned, and stays empty when it returned early.
Yielded(a) == Len(thisReviews[a]) > 0

\* C33: the yielding-sources list.  At the end of a run stats.sources holds
\* exactly the selected sources that returned at least one record, each
\* once, in processing order; a source that returned nothing, did not
\* initialise or had no product page is not in it.
C33_YieldingSourcesList ==
    opc = "done" => stats.sources = SelectSeq(scrapers, Yielded)

\* All three sources were selected; the first and the last yielded, the
\* second did not.
C33_Witness ==
    /\ opc = "done"
    /\ scrapers = <<"G2", "Capterra", "TrustRadius">>
    /\ stats.sources = <<"G2", "TrustRadius">>

\* The link texts that hold the company name, Ab, in whatever case.
NamesCompany(link) ==
    link.text \in { <<"a", "b">>, <<"x", " ", "A", "B">>, <<"A", "b", "x">> }

\* Some link of the list names the company.
SomeNames(links) == \E i \in 1..Len(links) : NamesCompany(links[i])

\* The first link of the list that names the company.
FirstNaming(links) ==
    links[CHOOSE i \in 1..Len(links) :
            /\ NamesCompany(links[i])
            /\ \A j \in 1..(i - 1) : ~NamesCompany(links[j])]

\* The URL is made from the href of the link.
DerivedFrom(url, link) == url # NullUrl /\ url[1] = link.href[1]

\* The step at hand is searchForCompany on Capterra or TrustRadius.
NameSearch ==
    /\ opc = "search" /\ Current \in {"Capterra", "TrustRadius"}
    /\ lastOp' \in Searches

\* The URL the product links alone call for: from the first that names the
\* company, else from the first, else null.
ByProductLinks(url, links) ==
    IF SomeNames(links) THEN DerivedFrom(url, FirstNaming(links))
    ELSE IF links # <<>> THEN DerivedFrom(url, links[1])
    ELSE url = NullUrl

\* C34 as stated: on Capterra and on TrustRadius the URL comes from the
\* first product link whose text contains the name in any case; when no
\* product link matches, from the first product link; it is null when there
\* is no product link or the search page does not load.
C34_AsStated ==
    [][ NameSearch =>
          IF lastOp' = "searchfail" THEN productUrl' = NullUrl
          ELSE ByProductLinks(productUrl', results'.links) ]_vars

\* C34, amended: as stated on Capterra.  On TrustRadius, when no product
\* link matches, the URL comes from the first vendor link whose text contains
\* the name; only when no vendor link matches either is the first product
\* link used, and the result is null when there is then no product link.
C34_SearchMatchPreference ==
    [][ NameSearch =>
          IF lastOp' = "searchfail" THEN productUrl' = NullUrl
          ELSE IF /\ Current = "TrustRadius"
                  /\ ~SomeNames(results'.links)
                  /\ SomeNames(results'.altLinks)
               THEN DerivedFrom(productUrl', FirstNaming(results'.altLinks))
               ELSE ByProductLinks(productUrl', results'.links) ]_vars

\* Capterra showed two product links, the second of which names the company
\* in upper case, and the URL was made from the second.
C34_Witness ==
    /\ lastOp = "search" /\ Current = "Capterra"
    /\ Len(results.links) = 2
    /\ ~NamesCompany(results.links[1])
    /\ results.links[2].text = <<"x", " ", "A", "B">>
    /\ DerivedFrom(productUrl, results.links[2])

\* C35: no false merges by the identity key.  Two merged records that differ
\* in the first 100 characters of content, in the author or in the date, each
\* lower-cased and stripped of whitespace, never have the same key, and a
\* record that differs so from every record before it is in the file written.
C35_NoFalseMerges ==
    Saved =>
        /\ \A i, j \in 1..Len(allReviews) :
              KeyParts(allReviews[i]) # KeyParts(allReviews[j])
                  => createReviewHash(allReviews[i]) # createReviewHash(allReviews[j])
        /\ \A i \in 1..Len(allReviews) :
              (\A j \in 1..(i - 1) : KeyParts(allReviews[j]) # KeyParts(allReviews[i]))
                  => \E k \in 1..Len(outFile) :
                         /\ outFile[k].id = allReviews[i].id
                         /\ outFile[k].source = allReviews[i].source

\* C36: adapter-level dedup agrees with the Deduplicator.  A record of the
\* batch that Capterra's or TrustRadius' removeDuplicateReviews keeps out of
\* the accumulator has the identity key (content prefix, author, date) of a
\* record the accumulator holds; records with the same or with no content but
\* another author or date are pushed.
C36_AdapterDedupAgrees ==
    [][ lastOp' = "push" =>
          \A i \in 1..Len(pageReviews) :
              (\A k \in (Len(acc) + 1)..Len(acc') : acc'[k] # pageReviews[i])
                  => \E j \in 1..Len(acc) :
                         createReviewHash(acc[j]) = createReviewHash(pageReviews[i]) ]_vars

\* The options the validation is to reject: no company, a start or an end
\* date that is no YYYY-MM-DD date, a start date after the end date, a source
\* that is none of g2, capterra, trustradius, all.
Rejected(o) ==
    \/ ~o.company
    \/ o.dates \in { <<JunkDate, RangeEnd>>, <<RangeStart, JunkDate>>,
                     <<RangeEnd, RangeStart>> }
    \/ o.source = "yelp"

\* C37: invalid configuration is rejected before any work.  Once scrape() was
\* called with options that fail validation it has returned false, and no
\* scraper was created or initialised, no page was requested and no file was
\* written.
C37_InvalidConfigRejected ==
    (lastOp # "none" /\ Rejected(options)) =>
        /\ opc = "done" /\ lastOp = "start"
        /\ result = "false"
        /\ scrapers = <<>>
        /\ \A a \in Adapters : session[a] = NoSession
        /\ page = NoPage /\ ~undelayedLoad
        /\ results = NoResults /\ productUrl = NullUrl
        /\ allReviews = <<>>
        /\ outFile = <<>> /\ filesSaved = {}

\* scrape() was called for a company on a source that exists, with a start
\* date after the end date, and returned false.
C37_Witness ==
    /\ opc = "done" /\ lastOp = "start"
    /\ options.company /\ options.source = "capterra"
    /\ options.dates = <<RangeEnd, RangeStart>>
    /\ result = "false"

\* C38: cleanup postcondition.  After cleanup() of a scraper has returned,
\* its page handle and its browser handle are null, the page and the browser
\* closed, also when closing the page failed; and a further cleanup() changes
\* nothing, whatever the closes would do.
C38_CleanupPostcondition ==
    [][ lastOp' = "cleanup" =>
          /\ session'[Current] = NoSession
          /\ \A outcome \in {"ok", "pageCloseFail", "browserCloseFail"} :
                cleanup(session'[Current], outcome) = session'[Current] ]_vars

====
